---- MODULE Spec2Model ----
(***************************************************************************)
(* Model of new_contribute.py: the submission bot's caption engine         *)
(* (PostManager, auto_fix_message), its per-user stores (user_posts,       *)
(* user_states), its handlers (handle_message, the step sequence, the      *)
(* confirm workflow with its sends and retries) and its instance lock      *)
(* (SingleInstanceLock).                                                   *)
(*                                                                         *)
(* Text is modelled as a sequence of symbols.  A symbol is one character   *)
(* (" ", "\n", ":"), or a run of non-blank characters that the code's      *)
(* patterns treat as a unit: a field label, a keyword, a URL scheme        *)
(* ("https://"), a domain marker ("pan.quark.cn"), "/s/", or some ordinary  *)
(* word ("a").  The regular expressions of the source are translated        *)
(* symbol for symbol, with their greedy/lazy matching and backtracking      *)
(* computed as Python's re computes it.                                     *)
(*                                                                         *)
(* Symbols that are not ASCII in the source are written in angle brackets: *)
(*   <name> 名称    <title> 资源标题   <desc> 描述    <intro> 简介           *)
(*   <link> 链接    <size> 大小        <tags> 标签    <:> ： (full width)     *)
(*   <folder> 📁    <label> 🏷         <quark> 夸克   <baidu> 百度           *)
(*   <xunlei> 迅雷  <copyright> 版权   <feedback> 反馈 <channel> 频道        *)
(*   <group> 群组   <submit> 投稿      <search> 搜索  <warn> ⚠️  <loud> 📢    *)
(*   <people> 👥    <glass> 🔍         <parttime> 兼职 <hiring> 招聘         *)
(*   <boosting> 游戏代练  <brushing> 刷单  <diamonds> 刷钻                   *)
(*   <absent> 未提供   #<netdisk> #网盘资源   #<promo> #鹏摇星海             *)
(***************************************************************************)
EXTENDS Integers, Sequences, FiniteSets, TLC

\* ------------------------------------------------------------------------
\* Text primitives (Python str operations used by the source)
\* ------------------------------------------------------------------------

\* \s of the regular expressions, and what str.strip() removes
WS == {" ", "\n"}

NL == "\n"

Min(a, b) == IF a <= b THEN a ELSE b

Max(a, b) == IF a >= b THEN a ELSE b

\* s[n:] of Python (drop the first n symbols)
Drop(s, n) == SubSeq(s, n + 1, Len(s))

\* s.startswith(p)
StartsWith(s, p) == Len(p) <= Len(s) /\ SubSeq(s, 1, Len(p)) = p

\* p occurs in s at position i (1-based)
OccursAt(s, p, i) == i >= 1 /\ i + Len(p) - 1 <= Len(s) /\ SubSeq(s, i, i + Len(p) - 1) = p

\* p in s
Contains(s, p) == \E i \in 1..(Len(s) - Len(p) + 1) : OccursAt(s, p, i)

\* s.strip()
Strip(s) ==
    LET idx == {i \in 1..Len(s) : s[i] \notin WS}
    IN  IF idx = {} THEN <<>>
        ELSE LET a == CHOOSE i \in idx : \A j \in idx : i <= j
                 b == CHOOSE i \in idx : \A j \in idx : i >= j
             IN  SubSeq(s, a, b)

\* the least element of a non-empty set of integers
MinOf(S) == CHOOSE i \in S : \A j \in S : i <= j

\* the greatest element of a non-empty set of integers
MaxOf(S) == CHOOSE i \in S : \A j \in S : i >= j

\* s.split('\n'): the list of lines (always at least one)
RECURSIVE SplitLines(_)
SplitLines(s) ==
    LET nls == {i \in 1..Len(s) : s[i] = NL}
    IN  IF nls = {} THEN <<s>>
        ELSE LET i == MinOf(nls)
             IN  <<SubSeq(s, 1, i - 1)>> \o SplitLines(Drop(s, i))

\* '\n'.join(lines)
RECURSIVE JoinLines(_)
JoinLines(lines) ==
    IF Len(lines) = 0 THEN <<>>
    ELSE IF Len(lines) = 1 THEN lines[1]
    ELSE lines[1] \o <<NL>> \o JoinLines(Tail(lines))

\* end (exclusive) of the run of non-blank symbols starting at i: [^\s]+
RunEnd(s, i) ==
    LET stop == {j \in i..Len(s) : s[j] \in WS}
    IN  IF stop = {} THEN Len(s) + 1 ELSE MinOf(stop)

\* position after a greedy \s* starting at k
WsEnd(s, k) ==
    LET stop == {j \in k..Len(s) : s[j] \notin WS}
    IN  IF stop = {} THEN Max(k, Len(s) + 1) ELSE MinOf(stop)

\* https?://
IsScheme(c) == c \in {"https://", "http://"}

\* [：:]
Colons == {"<:>", ":"}

FullColon == {"<:>"}

\* ------------------------------------------------------------------------
\* Fixed configuration
\* ------------------------------------------------------------------------

CHANNEL_IDS == <<"@yunpanNB", "@ammmziyuan">>

Providers == {"quark", "baidu", "uc", "xunlei"}

SPECIFIC_CHANNELS ==
    [p \in Providers |->
        CASE p = "quark" -> "@yunpanquark"
          [] p = "baidu" -> "@yunpanbaidu"
          [] p = "uc" -> "@pxyunpanuc"
          [] p = "xunlei" -> "@pxyunpanxunlei"]

\* the domain marker of each provider
Marker ==
    [p \in Providers |->
        CASE p = "quark" -> "pan.quark.cn"
          [] p = "baidu" -> "pan.baidu.com"
          [] p = "uc" -> "drive.uc.cn"
          [] p = "xunlei" -> "pan.xunlei.com"]

LinkLabel == <<"<link>", "<:>">>

PlaceholderLink == <<"https://", "pan.quark.cn", "/s/", "3c07afa156f3">>

PromoTag == <<"#<promo>">>

\* the value of Python's None, and its rendering by an f-string
NoneVal == <<"<None>">>

\* ------------------------------------------------------------------------
\* Regular-expression building blocks
\* ------------------------------------------------------------------------

\* first symbol of the group (.+?) after LABEL[colon]\s* when . excludes "\n":
\* \s* is greedy and gives back blanks only if nothing but blanks follows;
\* 0 when the group cannot start (only newlines, or nothing, follows)
LineGroupStart(s, k) ==
    LET e == WsEnd(s, k)
    IN  IF e <= Len(s) THEN e
        ELSE LET c == {j \in k..Len(s) : s[j] # NL}
             IN  IF c = {} THEN 0 ELSE MaxOf(c)

\* end (exclusive) of the lazy group (.+?)(?=\n|$) that starts at st
LineGroupEnd(s, st) ==
    LET stop == {j \in (st + 1)..Len(s) : s[j] = NL}
    IN  IF stop = {} THEN Len(s) + 1 ELSE MinOf(stop)

\* re.search(r"(?:labels)[colons]\s*(.+?)(?=\n|$)", s): group 1, if any
FieldSearch(s, labels, colons) ==
    LET cands == {i \in 1..(Len(s) - 1) :
                    /\ s[i] \in labels
                    /\ s[i + 1] \in colons
                    /\ LineGroupStart(s, i + 2) # 0}
    IN  IF cands = {} THEN [found |-> FALSE, val |-> <<>>]
        ELSE LET st == LineGroupStart(s, MinOf(cands) + 2)
             IN  [found |-> TRUE, val |-> SubSeq(s, st, LineGroupEnd(s, st) - 1)]

\* re.search(r"ICON\s*(?:labels)[colons]\s*(.+?)(?=\n|$)", s): group 1, if any
IconFieldSearch(s, icon, labels, colons) ==
    LET cands == {i \in 1..(Len(s) - 2) :
                    /\ s[i] = icon
                    /\ LET l == WsEnd(s, i + 1)
                       IN  /\ l + 1 <= Len(s)
                           /\ s[l] \in labels
                           /\ s[l + 1] \in colons
                           /\ LineGroupStart(s, l + 2) # 0}
    IN  IF cands = {} THEN [found |-> FALSE, val |-> <<>>]
        ELSE LET st == LineGroupStart(s, WsEnd(s, MinOf(cands) + 1) + 2)
             IN  [found |-> TRUE, val |-> SubSeq(s, st, LineGroupEnd(s, st) - 1)]

\* the labels that end a description: \n(?:链接|夸克|百度|UC|迅雷|📁|🏷)
DescStops == {"<link>", "<quark>", "<baidu>", "UC", "<xunlei>", "<folder>", "<label>"}

\* the lookahead (?=\n(?:stops)|$) holds at position j (the symbol after the group)
DescLookahead(s, j) ==
    \/ j = Len(s) + 1
    \/ j = Len(s) /\ s[j] = NL
    \/ j + 1 <= Len(s) /\ s[j] = NL /\ s[j + 1] \in DescStops

\* re.search(r"(?:labels)[：:]\s*(.+?)(?=\n(?:stops)|$)", s, re.DOTALL): group 1
DescSearch(s, labels) ==
    LET cands == {i \in 1..(Len(s) - 2) : s[i] \in labels /\ s[i + 1] \in Colons}
    IN  IF cands = {} THEN [found |-> FALSE, val |-> <<>>]
        ELSE LET e  == WsEnd(s, MinOf(cands) + 2)
                 st == IF e <= Len(s) THEN e ELSE Len(s)
                 en == MinOf({j \in (st + 1)..(Len(s) + 1) : DescLookahead(s, j)})
             IN  [found |-> TRUE, val |-> SubSeq(s, st, en - 1)]

\* the four provider URL patterns, with the scheme at position e:
\* https?://(?:pan\.quark\.cn/s/[^\s\n]+|pan\.baidu\.com/s/[^\s\n]+...|
\*            drive\.uc\.cn/[^\s\n]+|pan\.xunlei\.com/s/[^\s\n]+...)
ProviderUrlAt(s, e) ==
    /\ e + 2 <= Len(s)
    /\ IsScheme(s[e])
    /\ \/ /\ s[e + 1] \in {"pan.quark.cn", "pan.baidu.com", "pan.xunlei.com"}
          /\ s[e + 2] = "/s/"
          /\ e + 3 <= Len(s)
          /\ s[e + 3] \notin WS
       \/ /\ s[e + 1] = "drive.uc.cn"
          /\ \/ s[e + 2] = "/s/"
             \/ s[e + 2] = "/" /\ e + 3 <= Len(s) /\ s[e + 3] \notin WS

\* https?://[^\s]+ with the scheme at position e
AnyUrlAt(s, e) ==
    /\ e + 1 <= Len(s)
    /\ IsScheme(s[e])
    /\ s[e + 1] \notin WS

\* position of the URL of a match of (?:heads)[colons]\s*(https?://[^\s]+)
\* that starts at i; 0 when there is no match at i
HeadedUrlAt(s, i, heads, colons) ==
    IF i + 1 <= Len(s) /\ s[i] \in heads /\ s[i + 1] \in colons
        /\ AnyUrlAt(s, WsEnd(s, i + 2))
    THEN WsEnd(s, i + 2)
    ELSE 0

\* re.findall of a headed URL pattern: the URLs, in order, from position pos on
RECURSIVE FindHeadedUrls(_, _, _, _)
FindHeadedUrls(s, pos, heads, colons) ==
    LET hits == {i \in pos..Len(s) : HeadedUrlAt(s, i, heads, colons) # 0}
    IN  IF hits = {} THEN <<>>
        ELSE LET e == HeadedUrlAt(s, MinOf(hits), heads, colons)
             IN  <<SubSeq(s, e, RunEnd(s, e) - 1)>>
                     \o FindHeadedUrls(s, RunEnd(s, e), heads, colons)

\* re.findall of the provider URL pattern: the URLs, in order, from pos on
RECURSIVE FindProviderUrls(_, _)
FindProviderUrls(s, pos) ==
    LET hits == {e \in pos..Len(s) : ProviderUrlAt(s, e)}
    IN  IF hits = {} THEN <<>>
        ELSE LET e == MinOf(hits)
             IN  <<SubSeq(s, e, RunEnd(s, e) - 1)>> \o FindProviderUrls(s, RunEnd(s, e))

\* x in list
InSeq(x, list) == \E i \in 1..Len(list) : list[i] = x

\* the list without repetitions, first occurrences kept in order
RECURSIVE Dedup(_)
Dedup(list) ==
    IF list = <<>> THEN <<>>
    ELSE LET front == Dedup(SubSeq(list, 1, Len(list) - 1))
             x     == list[Len(list)]
         IN  IF InSeq(x, front) THEN front ELSE Append(front, x)

\* ------------------------------------------------------------------------
\* PostManager
\* ------------------------------------------------------------------------

ProviderNames == {"<quark>", "<baidu>", "UC", "<xunlei>"}

\* re.search(r"：\s*(https?://.+)", link): group 1 of the leftmost match, or <<>>
ActualLink(link) ==
    LET hits == {i \in 1..Len(link) :
                    /\ link[i] = "<:>"
                    /\ LET e == WsEnd(link, i + 1)
                       IN  e + 1 <= Len(link) /\ IsScheme(link[e])}
    IN  IF hits = {} THEN <<>>
        ELSE SubSeq(link, WsEnd(link, MinOf(hits) + 1), Len(link))

\* one iteration of the loop of format_links on a stripped, non-empty line
FormatLink(link) ==
    IF StartsWith(link, LinkLabel) THEN link
    ELSE IF Len(link) >= 2 /\ link[1] \in ProviderNames /\ link[2] = "<:>"
              /\ ActualLink(link) # <<>>
         THEN LinkLabel \o ActualLink(link)
         ELSE LinkLabel \o link

RECURSIVE FormatLinkLines(_)
FormatLinkLines(lines) ==
    IF lines = <<>> THEN <<>>
    ELSE LET link == Strip(Head(lines))
         IN  IF link = <<>> THEN FormatLinkLines(Tail(lines))
             ELSE <<FormatLink(link)>> \o FormatLinkLines(Tail(lines))

\* a variant of format_links without the placeholder link
format_links_no_placeholder(links_text) == JoinLines(FormatLinkLines(SplitLines(links_text)))

format_links(links_text) ==
    LET formatted_links == FormatLinkLines(SplitLines(links_text))
    IN  IF formatted_links = <<>>
        THEN LinkLabel \o PlaceholderLink
        ELSE JoinLines(formatted_links)

\* a variant of DedupLinkLines that compares line[3:] without strip()
RECURSIVE DedupLinkLinesUnstripped(_, _)
DedupLinkLinesUnstripped(lines, seen) ==
    IF lines = <<>> THEN <<>>
    ELSE LET line == Head(lines)
         IN  IF StartsWith(line, LinkLabel)
             THEN LET link_url == Drop(line, 2)
                  IN  IF link_url \in seen
                      THEN DedupLinkLinesUnstripped(Tail(lines), seen)
                      ELSE <<line>> \o DedupLinkLinesUnstripped(Tail(lines), seen \cup {link_url})
             ELSE <<line>> \o DedupLinkLinesUnstripped(Tail(lines), seen)

\* the loop of remove_duplicate_links: the lines kept, seen_links being `seen`
RECURSIVE DedupLinkLines(_, _)
DedupLinkLines(lines, seen) ==
    IF lines = <<>> THEN <<>>
    ELSE LET line == Head(lines)
         IN  IF StartsWith(line, LinkLabel)
             THEN LET link_url == Strip(Drop(line, 2))
                  IN  IF link_url \in seen
                      THEN DedupLinkLines(Tail(lines), seen)
                      ELSE <<line>> \o DedupLinkLines(Tail(lines), seen \cup {link_url})
             ELSE <<line>> \o DedupLinkLines(Tail(lines), seen)

remove_duplicate_links(caption) == JoinLines(DedupLinkLines(SplitLines(caption), {}))

\* url of a link as identify_link_types reads it
LinkUrl(link) == IF StartsWith(link, LinkLabel) THEN Strip(Drop(link, 2)) ELSE Strip(link)

\* a variant of LinkType that tests the baidu marker first
LinkTypeBaiduFirst(url) ==
    IF Contains(url, <<"pan.baidu.com">>) THEN "baidu"
    ELSE IF Contains(url, <<"pan.quark.cn">>) THEN "quark"
    ELSE IF Contains(url, <<"drive.uc.cn">>) THEN "uc"
    ELSE IF Contains(url, <<"pan.xunlei.com">>) THEN "xunlei"
    ELSE "unknown"

\* the if/elif chain of identify_link_types on one url: first marker wins
LinkType(url) ==
    IF Contains(url, <<"pan.quark.cn">>) THEN "quark"
    ELSE IF Contains(url, <<"pan.baidu.com">>) THEN "baidu"
    ELSE IF Contains(url, <<"drive.uc.cn">>) THEN "uc"
    ELSE IF Contains(url, <<"pan.xunlei.com">>) THEN "xunlei"
    ELSE "unknown"

identify_link_types(links) ==
    {LinkType(LinkUrl(links[i])) : i \in 1..Len(links)} \ {"unknown"}

\* the if/elif chain of get_channels_for_each_link on one url: the channels
LinkChannels(url) ==
    IF Contains(url, <<"pan.quark.cn">>) THEN Append(CHANNEL_IDS, "@yunpanquark")
    ELSE IF Contains(url, <<"pan.baidu.com">>) THEN Append(CHANNEL_IDS, "@yunpanbaidu")
    ELSE IF Contains(url, <<"drive.uc.cn">>) THEN Append(CHANNEL_IDS, "@pxyunpanuc")
    ELSE IF Contains(url, <<"pan.xunlei.com">>) THEN Append(CHANNEL_IDS, "@pxyunpanxunlei")
    ELSE CHANNEL_IDS

get_channels_for_each_link(links) ==
    [i \in 1..Len(links) |-> [link |-> LinkUrl(links[i]), channels |-> LinkChannels(LinkUrl(links[i]))]]

\* all orders in which a list can hold the elements of a set: list(set)
RECURSIVE Orders(_)
Orders(S) ==
    IF S = {} THEN {<<>>}
    ELSE UNION {{<<x>> \o q : q \in Orders(S \ {x})} : x \in S}

\* a variant of get_target_channels that adds a channel per link, not per type
get_target_channels_per_link(links) ==
    LET link_types == identify_link_types(links)
        specific == [i \in 1..Len(links) |-> LinkType(LinkUrl(links[i]))]
        added == SelectSeq(specific, LAMBDA t : t # "unknown")
    IN  IF link_types = {} THEN {CHANNEL_IDS}
        ELSE {CHANNEL_IDS \o [i \in 1..Len(added) |-> SPECIFIC_CHANNELS[added[i]]]}

\* get_target_channels: the lists it can return (the order of list(set) is
\* that of the interpreter's hashing)
get_target_channels(links) ==
    LET link_types == identify_link_types(links)
    IN  IF link_types = {} THEN {CHANNEL_IDS}
        ELSE Orders({CHANNEL_IDS[i] : i \in 1..Len(CHANNEL_IDS)}
                        \cup {SPECIFIC_CHANNELS[t] : t \in link_types})

\* the if/elif chain of create_channel_specific_caption on one link line
KeepLink(url, link_type) == Contains(url, <<Marker[link_type]>>)

RECURSIVE FilterLines(_, _)
FilterLines(lines, link_type) ==
    IF lines = <<>> THEN <<>>
    ELSE LET line == Head(lines)
         IN  IF StartsWith(line, LinkLabel) /\ ~KeepLink(Strip(Drop(line, 2)), link_type)
             THEN FilterLines(Tail(lines), link_type)
             ELSE <<line>> \o FilterLines(Tail(lines), link_type)

create_channel_specific_caption(original_caption, link_type) ==
    JoinLines(FilterLines(SplitLines(original_caption), link_type))

ad_keywords == {"<parttime>", "<hiring>", "<boosting>", "<brushing>", "<diamonds>"}

\* r"taobao\.com", r"tmall\.com", r"jd\.com", r"wechat", r"wx\.qq\.com", r"alipay\.com"
suspicious_patterns == {"taobao.com", "tmall.com", "jd.com", "wechat", "wx.qq.com", "alipay.com"}

\* a symbol that begins with "/"
Slash == {"/", "/s/"}

\* re.match(r"https?://(pan\.quark\.cn|pan\.baidu\.com|drive\.uc\.cn|pan\.xunlei\.com)/", link)
ProviderPrefix(link) ==
    /\ Len(link) >= 3
    /\ IsScheme(link[1])
    /\ link[2] \in {Marker[p] : p \in Providers}
    /\ link[3] \in Slash

detect_ad_content(caption) ==
    LET desc_match   == FieldSearch(caption, {"<desc>"}, FullColon)
        link_matches == FindHeadedUrls(caption, 1, {"<link>"}, FullColon)
    IN  \/ /\ desc_match.found
           /\ \E i \in 1..Len(desc_match.val) : desc_match.val[i] \in ad_keywords
        \/ \E k \in 1..Len(link_matches) :
              /\ ~ProviderPrefix(link_matches[k])
              /\ \E i \in 1..Len(link_matches[k]) : link_matches[k][i] \in suspicious_patterns

strict_mode_parse(caption) ==
    LET name_match == FieldSearch(caption, {"<name>", "<title>"}, Colons)
        desc_match == DescSearch(caption, {"<desc>"})
        link_matches == Dedup(FindProviderUrls(caption, 1))
        generic_links == Dedup(FindProviderUrls(caption, 1))
        size_match == FieldSearch(caption, {"<size>"}, Colons)
        size_icon_match == IconFieldSearch(caption, "<folder>", {"<size>"}, Colons)
        tag_match == FieldSearch(caption, {"<tags>"}, Colons)
        tag_icon_match == IconFieldSearch(caption, "<label>", {"<tags>"}, Colons)
    IN  [name |-> IF name_match.found THEN Strip(name_match.val) ELSE <<>>,
         description |-> IF desc_match.found THEN Strip(desc_match.val) ELSE <<>>,
         links |-> IF link_matches # <<>> THEN link_matches ELSE generic_links,
         size |-> IF size_match.found THEN Strip(size_match.val)
                  ELSE IF size_icon_match.found THEN Strip(size_icon_match.val) ELSE <<>>,
         tags |-> IF tag_match.found THEN Strip(tag_match.val)
                  ELSE IF tag_icon_match.found THEN Strip(tag_icon_match.val) ELSE <<>>]

\* copyright_keywords, in the order of the list
copyright_keywords ==
    << <<"<warn>", " ", "<copyright>", "<:>">>,
       <<"<copyright>", "<feedback>", "/", "DMCA">>,
       <<"<loud>", " ", "<channel>", " ", "<people>", "<group>", "<glass>", "<submit>", "/", "<search>">>,
       <<"<copyright>">>,
       <<"<copyright>", "<feedback>">>,
       <<"DMCA">>,
       <<"<channel>">>,
       <<"<group>">>,
       <<"<submit>">>,
       <<"<search>">> >>

\* a link list that is None
NoneLinks == <<NoneVal>>

\* a variant of BanCheck that tests `keyword in name` alone
RECURSIVE BanCheckNameOnly(_, _, _)
BanCheckNameOnly(name, description, k) ==
    IF k > Len(copyright_keywords) THEN [kind |-> "ok", keyword |-> <<>>]
    ELSE IF name = NoneVal THEN [kind |-> "TypeError", keyword |-> <<>>]
    ELSE IF Contains(name, copyright_keywords[k])
         THEN [kind |-> "ValueError", keyword |-> copyright_keywords[k]]
    ELSE BanCheckNameOnly(name, description, k + 1)

\* the keyword loop of create_post_caption from keyword k on: "ok", or the
\* exception raised ("TypeError" for `keyword in None`)
RECURSIVE BanCheck(_, _, _)
BanCheck(name, description, k) ==
    IF k > Len(copyright_keywords) THEN [kind |-> "ok", keyword |-> <<>>]
    ELSE IF name = NoneVal THEN [kind |-> "TypeError", keyword |-> <<>>]
    ELSE IF Contains(name, copyright_keywords[k])
         THEN [kind |-> "ValueError", keyword |-> copyright_keywords[k]]
    ELSE IF description = NoneVal THEN [kind |-> "TypeError", keyword |-> <<>>]
    ELSE IF Contains(description, copyright_keywords[k])
         THEN [kind |-> "ValueError", keyword |-> copyright_keywords[k]]
    ELSE BanCheck(name, description, k + 1)

\* a links value that is one string, not a list: the string behind a mark
StrLinks(s) == <<<<"<str>">>, s>>

\* isinstance(links, list)
IsList(links) == links = <<>> \/ links[1] # <<"<str>">>

\* the caption create_post_caption builds once the keyword loop has passed
ComposeCaption(post_data) ==
    LET links_formatted == format_links(IF IsList(post_data.links)
                                        THEN JoinLines(post_data.links)
                                        ELSE post_data.links[2])
        original_tags == post_data.tags
        tags_with_prefix == IF original_tags # <<>> /\ original_tags # NoneVal
                            THEN original_tags \o <<" ">> \o PromoTag
                            ELSE PromoTag
        fixed_caption ==
            <<"<name>", "<:>">> \o post_data.name \o <<NL, NL>>
            \o <<"<desc>", "<:>">> \o post_data.description \o <<NL, NL>>
            \o links_formatted \o <<NL, NL>>
            \o <<"<folder>", " ", "<size>", "<:>">> \o post_data.size \o <<NL>>
            \o <<"<label>", " ", "<tags>", "<:>">> \o tags_with_prefix
    IN  remove_duplicate_links(fixed_caption)

\* create_post_caption: [kind |-> "ok", caption], or the exception it raises
\* ("AttributeError" for None.split in format_links)
create_post_caption(post_data) ==
    LET ban == BanCheck(post_data.name, post_data.description, 1)
    IN  IF ban.kind # "ok" THEN [kind |-> ban.kind, keyword |-> ban.keyword, caption |-> <<>>]
        ELSE IF post_data.links = NoneLinks
             THEN [kind |-> "AttributeError", keyword |-> <<>>, caption |-> <<>>]
        ELSE [kind |-> "ok", keyword |-> <<>>, caption |-> ComposeCaption(post_data)]

\* ------------------------------------------------------------------------
\* Reconstruction and structural validation (handle_message)
\* ------------------------------------------------------------------------

Absent == <<"<absent>">>

\* a variant of auto_fix_message without the placeholder link
auto_fix_message_no_placeholder(caption) ==
    LET name_match == FieldSearch(caption, {"<name>"}, Colons)
        desc_match == DescSearch(caption, {"<desc>", "<intro>"})
        links == Dedup(FindHeadedUrls(caption, 1, {"<link>"}, Colons)
                       \o FindHeadedUrls(caption, 1, ProviderNames, Colons)
                       \o FindProviderUrls(caption, 1))
        links_formatted == [i \in 1..Len(links) |-> LinkLabel \o links[i]]
        size_match == FieldSearch(caption, {"<size>"}, Colons)
        tag_match == FieldSearch(caption, {"<tags>"}, Colons)
        name == IF name_match.found THEN Strip(name_match.val) ELSE Absent
        description == IF desc_match.found THEN Strip(desc_match.val) ELSE Absent
        size == IF size_match.found THEN Strip(size_match.val) ELSE <<"NG">>
        tags == IF tag_match.found THEN Strip(tag_match.val) ELSE <<"#<netdisk>">>
    IN  <<"<name>", "<:>">> \o name \o <<NL, NL>>
        \o <<"<desc>", "<:>">> \o description \o <<NL, NL>>
        \o JoinLines(links_formatted) \o <<NL, NL>>
        \o <<"<folder>", " ", "<size>", "<:>">> \o size \o <<NL>>
        \o <<"<label>", " ", "<tags>", "<:>">> \o tags

auto_fix_message(caption) ==
    LET name_match == FieldSearch(caption, {"<name>"}, Colons)
        desc_match == DescSearch(caption, {"<desc>", "<intro>"})
        links == Dedup(FindHeadedUrls(caption, 1, {"<link>"}, Colons)
                       \o FindHeadedUrls(caption, 1, ProviderNames, Colons)
                       \o FindProviderUrls(caption, 1))
        links_formatted == IF links # <<>>
                           THEN [i \in 1..Len(links) |-> LinkLabel \o links[i]]
                           ELSE <<LinkLabel \o PlaceholderLink>>
        size_match == FieldSearch(caption, {"<size>"}, Colons)
        tag_match == FieldSearch(caption, {"<tags>"}, Colons)
        name == IF name_match.found THEN Strip(name_match.val) ELSE Absent
        description == IF desc_match.found THEN Strip(desc_match.val) ELSE Absent
        size == IF size_match.found THEN Strip(size_match.val) ELSE <<"NG">>
        tags == IF tag_match.found THEN Strip(tag_match.val) ELSE <<"#<netdisk>">>
    IN  <<"<name>", "<:>">> \o name \o <<NL, NL>>
        \o <<"<desc>", "<:>">> \o description \o <<NL, NL>>
        \o JoinLines(links_formatted) \o <<NL, NL>>
        \o <<"<folder>", " ", "<size>", "<:>">> \o size \o <<NL>>
        \o <<"<label>", " ", "<tags>", "<:>">> \o tags

\* end (exclusive) of one group (链接：\s*https?:\/\/[^\s]+\n) starting at a; 0 if none
LinkGroupEnd(s, a) ==
    IF HeadedUrlAt(s, a, {"<link>"}, FullColon) = 0 THEN 0
    ELSE LET r == RunEnd(s, HeadedUrlAt(s, a, {"<link>"}, FullColon))
         IN  IF r <= Len(s) /\ s[r] = NL THEN r + 1 ELSE 0

\* the positions where (group)+ can end when it starts at a
RECURSIVE LinkGroupEnds(_, _)
LinkGroupEnds(s, a) ==
    LET q == LinkGroupEnd(s, a)
    IN  IF q = 0 THEN {} ELSE {q} \cup LinkGroupEnds(s, q)

\* re.search(pattern, caption, re.DOTALL) of handle_message: with DOTALL every
\* .* spans lines, so the pattern asks for its five anchors in this order
StructuralMatch(s) ==
    \E i \in 1..Len(s) :
        /\ OccursAt(s, <<"<name>", "<:>">>, i)
        /\ \E j \in (i + 2)..Len(s) :
              /\ OccursAt(s, <<NL, NL, "<desc>", "<:>">>, j)
              /\ \E p \in (j + 4)..Len(s) :
                    /\ OccursAt(s, <<NL, NL>>, p)
                    /\ \E q \in LinkGroupEnds(s, p + 2) :
                          /\ OccursAt(s, <<NL, "<folder>", " ", "<size>", "<:>">>, q)
                          /\ \E t \in (q + 5)..Len(s) :
                                OccursAt(s, <<NL, "<label>", " ", "<tags>", "<:>">>, t)

\* ------------------------------------------------------------------------
\* State
\* ------------------------------------------------------------------------

VARIABLES
    user_posts,     \* dict user_id -> list of {'image', 'caption'}
    user_states,    \* dict user_id -> {'step', 'data'}
    update,         \* the update being handled, or handled last: [from, kind, msg]
    reply,          \* the last answer a handler gave: [kind, keyword]
    overwrote,      \* whether the update handled last replaced a step record
    pc,             \* where handle_confirm_callback stands ("idle": not running)
    cuser,          \* its user_id
    idx,            \* its position in user_posts[user_id] (the for loop)
    success_count,
    fail_count,
    skipped,        \* posts of this confirmation skipped for advertising
    base_i,         \* position in base_channels (the first inner loop)
    types_left,     \* link types the second inner loop has not visited yet
    targets,        \* the sends begun in this confirmation: [post, channel, caption]
    att,            \* what happened to the current target: outcomes and delays
    record,         \* a post record given to create_post_caption on its own
    sample,         \* a caption text given to the caption engine on its own
    result,         \* what the caption engine made of the record, or of the text
    lock_path,      \* the file bot_instance.lock leads to (an inode), 0: no such file
    lock_file,      \* per process: the file self.lock_file has open, 0: None
    flocked,        \* the processes whose open file holds the flock
    is_locked,      \* the processes whose self.is_locked is True
    main_pc         \* per process: where its main() stands ("off": not running)

vars == <<user_posts, user_states, update, reply, overwrote, pc, cuser, idx, success_count, fail_count,
          skipped, base_i, types_left, targets, att, record, sample, result,
          lock_path, lock_file, flocked, is_locked, main_pc>>

\* the variables of the caption engine used on its own
fnVars == <<record, sample, result>>

confirmVars == <<pc, cuser, idx, success_count, fail_count, skipped, base_i,
                 types_left, targets, att>>

\* the instance lock and the processes started on the machine
lockVars == <<lock_path, lock_file, flocked, is_locked, main_pc>>

\* the processes started from new_contribute.py; the bot is the first
Procs == {"p1", "p2", "p3"}

Users == {"u1", "u2"}

NoUser == "nobody"

\* a dict with key k set to v
Put(d, k, v) == [x \in (DOMAIN d) \cup {k} |-> IF x = k THEN v ELSE d[x]]

\* del d[k]
Del(d, k) == [x \in (DOMAIN d) \ {k} |-> d[x]]

\* post_manager.post_template.copy(); the links list [] is held as the text
\* it joins to
post_template ==
    [name |-> <<>>, description |-> <<>>, links |-> <<>>, size |-> <<>>, tags |-> <<>>]

NoPhoto == "no_photo"

Answer(kind) == [kind |-> kind, keyword |-> <<>>]

NoMsg == [photo |-> NoPhoto, caption |-> NoneVal, text |-> NoneVal]

\* a press of the inline button whose callback_data is `data`
Callback(u, data) == [from |-> u, kind |-> data, msg |-> NoMsg]

\* the bot after start-up: both stores empty, no handler running; its
\* process has taken the instance lock and polls
BotInit ==
    /\ lock_path = 1
    /\ lock_file = [p \in Procs |-> IF p = "p1" THEN 1 ELSE 0]
    /\ flocked = {"p1"}
    /\ is_locked = {"p1"}
    /\ main_pc = [p \in Procs |-> IF p = "p1" THEN "polling" ELSE "off"]
    /\ user_posts = [u \in {} |-> <<>>]
    /\ user_states = [u \in {} |-> <<>>]
    /\ update = [from |-> NoUser, kind |-> "none", msg |-> NoMsg]
    /\ reply = Answer("none")
    /\ overwrote = FALSE
    /\ pc = "idle"
    /\ cuser = NoUser
    /\ idx = 0
    /\ success_count = 0
    /\ fail_count = 0
    /\ skipped = 0
    /\ base_i = 0
    /\ types_left = {}
    /\ targets = <<>>
    /\ att = <<>>

NoResult == [stage |-> "none", kind |-> "none", caption |-> <<>>,
             parsed |-> [post_template EXCEPT !.links = <<>>]]

Init ==
    /\ BotInit
    /\ record = [post_template EXCEPT !.links = <<>>]
    /\ sample = <<>>
    /\ result = NoResult

\* ------------------------------------------------------------------------
\* Message handlers.  The Application handles one update at a time
\* (concurrent_updates is off), so a handler runs only while no other does.
\* ------------------------------------------------------------------------

\* user_posts[user_id].append({'image': image, 'caption': caption}), creating
\* the list first when the user has none
AppendPost(posts, u, image, caption) ==
    Put(posts, u, (IF u \in DOMAIN posts THEN posts[u] ELSE <<>>)
                      \o <<[image |-> image, caption |-> caption]>>)

\* a variant of QuickPost without the assignment `caption = fixed_caption`
QuickPostKeepsOriginal(u, msg) ==
    IF msg.photo = NoPhoto \/ msg.caption = NoneVal
    THEN /\ reply' = Answer("format_error")
         /\ UNCHANGED <<user_posts, user_states>>
    ELSE LET caption == msg.caption
             parsed_data == strict_mode_parse(caption)
         IN  IF parsed_data.name = <<>> \/ parsed_data.description = <<>>
             THEN IF detect_ad_content(caption)
                     \/ (~StructuralMatch(caption)
                            /\ detect_ad_content(auto_fix_message(caption)))
                  THEN /\ reply' = Answer("ad_rejected")
                       /\ UNCHANGED <<user_posts, user_states>>
                  ELSE IF ~StructuralMatch(caption)
                            /\ ~StructuralMatch(auto_fix_message(caption))
                  THEN /\ reply' = Answer("format_error")
                       /\ UNCHANGED <<user_posts, user_states>>
                  ELSE /\ user_posts' = AppendPost(user_posts, u, msg.photo, caption)
                       /\ reply' = Answer("preview")
                       /\ UNCHANGED user_states
             ELSE LET res == create_post_caption(parsed_data)
                  IN  IF res.kind = "ok"
                      THEN /\ user_posts' = AppendPost(user_posts, u, msg.photo, res.caption)
                           /\ reply' = Answer("preview")
                           /\ UNCHANGED user_states
                      ELSE /\ reply' = [kind |-> "banned", keyword |-> res.keyword]
                           /\ UNCHANGED <<user_posts, user_states>>

\* body of handle_message for a user without a step sequence
QuickPost(u, msg) ==
    IF msg.photo = NoPhoto \/ msg.caption = NoneVal
    THEN /\ reply' = Answer("format_error")
         /\ UNCHANGED <<user_posts, user_states>>
    ELSE LET caption == msg.caption
             parsed_data == strict_mode_parse(caption)
         IN  IF parsed_data.name = <<>> \/ parsed_data.description = <<>>
             THEN IF detect_ad_content(caption)
                  THEN /\ reply' = Answer("ad_rejected")
                       /\ UNCHANGED <<user_posts, user_states>>
                  ELSE IF ~StructuralMatch(caption)
                  THEN LET fixed_caption == auto_fix_message(caption)
                       IN  IF detect_ad_content(fixed_caption)
                           THEN /\ reply' = Answer("ad_rejected")
                                /\ UNCHANGED <<user_posts, user_states>>
                           ELSE IF ~StructuralMatch(fixed_caption)
                           THEN /\ reply' = Answer("format_error")
                                /\ UNCHANGED <<user_posts, user_states>>
                           ELSE /\ user_posts' = AppendPost(user_posts, u, msg.photo, fixed_caption)
                                /\ reply' = Answer("preview")
                                /\ UNCHANGED user_states
                  ELSE /\ user_posts' = AppendPost(user_posts, u, msg.photo, caption)
                       /\ reply' = Answer("preview")
                       /\ UNCHANGED user_states
             ELSE LET res == create_post_caption(parsed_data)
                  IN  IF res.kind = "ok"
                      THEN /\ user_posts' = AppendPost(user_posts, u, msg.photo, res.caption)
                           /\ reply' = Answer("preview")
                           /\ UNCHANGED user_states
                      ELSE /\ reply' = [kind |-> "banned", keyword |-> res.keyword]
                           /\ UNCHANGED <<user_posts, user_states>>

Steps == <<"name", "description", "links", "size", "tags", "complete">>

\* a variant of NextStep in which 'links' is followed by 'tags'
NextStepSkipsSize(step) ==
    CASE step = "name" -> "description"
      [] step = "description" -> "links"
      [] step = "links" -> "tags"
      [] step = "size" -> "tags"
      [] step = "tags" -> "complete"

\* step_messages[current_step]['next_step']
NextStep(step) ==
    CASE step = "name" -> "description"
      [] step = "description" -> "links"
      [] step = "links" -> "size"
      [] step = "size" -> "tags"
      [] step = "tags" -> "complete"

\* user_data as create_post_caption receives it at step 'complete'
StepRecord(data) ==
    [data EXCEPT !.links = IF data.links = NoneVal THEN NoneLinks ELSE SplitLines(data.links)]

\* body of handle_step_post_message for a user with a step sequence
StepPost(u, msg) ==
    LET current_step == user_states[u].step
        user_data == user_states[u].data
    IN  IF current_step # "complete"
        THEN /\ user_states' = [user_states EXCEPT
                    ![u] = [step |-> NextStep(current_step),
                            data |-> [user_data EXCEPT ![current_step] = msg.text]]]
             /\ reply' = Answer("prompt")
             /\ UNCHANGED user_posts
        ELSE IF msg.photo = NoPhoto
        THEN /\ reply' = Answer("need_photo")
             /\ UNCHANGED <<user_posts, user_states>>
        ELSE LET res == create_post_caption(StepRecord(user_data))
             IN  IF res.kind = "ok"
                 THEN /\ user_posts' = AppendPost(user_posts, u, msg.photo, res.caption)
                      /\ user_states' = Del(user_states, u)
                      /\ reply' = Answer("preview")
                 ELSE IF res.kind = "ValueError"
                 THEN /\ user_states' = Del(user_states, u)
                      /\ reply' = [kind |-> "banned", keyword |-> res.keyword]
                      /\ UNCHANGED user_posts
                 ELSE \* an exception the handler does not catch ends it there
                      /\ reply' = Answer(res.kind)
                      /\ UNCHANGED <<user_posts, user_states>>

\* the most calls from one of the two message handlers to the other that
\* are followed for one update
MaxHops == 3

\* a variant of Delegates in which handle_step_post_message hands over the
\* submitters who have a step record
DelegatesAlike(handler, u) == u \in DOMAIN user_states

\* the test at the head of a message handler: handle_message hands the
\* update over when the submitter has a step record (every record has a
\* 'step'), handle_step_post_message when the submitter has none
Delegates(handler, u) ==
    IF handler = "handle_message" THEN u \in DOMAIN user_states
    ELSE u \notin DOMAIN user_states

\* the handlers an update of submitter u goes through when `handler` is
\* called with it after `hops` calls from one to the other
RECURSIVE Route(_, _, _)
Route(handler, u, hops) ==
    IF Delegates(handler, u) /\ hops < MaxHops
    THEN <<handler>> \o Route(IF handler = "handle_message" THEN "handle_step_post_message"
                                                              ELSE "handle_message",
                               u, hops + 1)
    ELSE <<handler>>

\* a message handler called by the Application: the update goes from handler
\* to handler, and the one that does not hand it over runs its body; calls
\* that never end raise RecursionError
Dispatch(handler, u, msg) ==
    LET route == Route(handler, u, 0)
        last == route[Len(route)]
    IN  IF Delegates(last, u)
        THEN /\ reply' = Answer("RecursionError")
             /\ UNCHANGED <<user_posts, user_states>>
        ELSE IF last = "handle_step_post_message" THEN StepPost(u, msg)
        ELSE QuickPost(u, msg)

\* MessageHandler(filters.PHOTO & filters.CAPTION, handle_message)
handle_message(u, msg) ==
    /\ UNCHANGED <<fnVars, lockVars>>
    /\ overwrote' = FALSE
    /\ pc = "idle"
    /\ msg.photo # NoPhoto /\ msg.caption # NoneVal
    /\ update' = [from |-> u, kind |-> "photo", msg |-> msg]
    /\ Dispatch("handle_message", u, msg)
    /\ UNCHANGED confirmVars

\* MessageHandler(filters.TEXT & ~filters.COMMAND, handle_step_post_message)
handle_step_post_message(u, msg) ==
    /\ UNCHANGED <<fnVars, lockVars>>
    /\ overwrote' = FALSE
    /\ pc = "idle"
    /\ msg.text # NoneVal
    /\ update' = [from |-> u, kind |-> "text", msg |-> msg]
    /\ Dispatch("handle_step_post_message", u, msg)
    /\ UNCHANGED confirmVars

\* a photo without caption matches no registered handler
unhandled_photo(u, msg) ==
    /\ UNCHANGED <<fnVars, lockVars>>
    /\ overwrote' = FALSE
    /\ pc = "idle"
    /\ msg.photo # NoPhoto /\ msg.caption = NoneVal
    /\ update' = [from |-> u, kind |-> "photo", msg |-> msg]
    /\ reply' = Answer("none")
    /\ UNCHANGED <<user_posts, user_states, confirmVars>>

\* a variant of StartRecord that sets the step of an existing record back to
\* 'name' and keeps its data
StartRecordKeepsData(states, u) ==
    IF u \in DOMAIN states THEN [states EXCEPT ![u].step = "name"]
    ELSE Put(states, u, [step |-> "name", data |-> post_template])

\* user_states[user_id] = {...}: the dict with the new step record under user_id
StartRecord(states, u) == Put(states, u, [step |-> "name", data |-> post_template])

step_post_start(u) ==
    /\ UNCHANGED <<fnVars, lockVars>>
    /\ overwrote' = (u \in DOMAIN user_states)
    /\ pc = "idle"
    /\ update' = Callback(u, "step_post")
    /\ user_states' = StartRecord(user_states, u)
    /\ reply' = Answer("started")
    /\ UNCHANGED <<user_posts, confirmVars>>

clear_posts(u) ==
    /\ UNCHANGED <<fnVars, lockVars>>
    /\ overwrote' = FALSE
    /\ pc = "idle"
    /\ update' = Callback(u, "clear_posts")
    /\ user_posts' = Del(user_posts, u)
    /\ reply' = Answer("cleared")
    /\ UNCHANGED <<user_states, confirmVars>>

handle_edit_callback(u) ==
    /\ UNCHANGED <<fnVars, lockVars>>
    /\ overwrote' = FALSE
    /\ pc = "idle"
    /\ update' = Callback(u, "edit_post")
    /\ user_posts' = Del(user_posts, u)
    /\ reply' = Answer("edit")
    /\ UNCHANGED <<user_states, confirmVars>>

cancel_post(u) ==
    /\ UNCHANGED <<fnVars, lockVars>>
    /\ overwrote' = FALSE
    /\ pc = "idle"
    /\ update' = Callback(u, "cancel_post")
    /\ user_posts' = Del(user_posts, u)
    /\ reply' = Answer("cancelled")
    /\ UNCHANGED <<user_states, confirmVars>>

cancel_step_post(u) ==
    /\ UNCHANGED <<fnVars, lockVars>>
    /\ overwrote' = FALSE
    /\ pc = "idle"
    /\ update' = Callback(u, "cancel_step_post")
    /\ user_states' = Del(user_states, u)
    /\ reply' = Answer("step_cancelled")
    /\ UNCHANGED <<user_posts, confirmVars>>

\* ------------------------------------------------------------------------
\* handle_confirm_callback.  Each await of a send, and each sleep before a
\* retry, is a step of its own; the answers to the submitter (query.answer,
\* edit_message_text) are taken to succeed.
\* ------------------------------------------------------------------------

\* re.findall(r"链接：\s*(https?://[^\s\n]+)", processed_caption)
CaptionLinks(processed_caption) == FindHeadedUrls(processed_caption, 1, {"<link>"}, FullColon)

\* base_message: the caption and the broadcast footer
base_message(processed_caption) == processed_caption \o <<NL, NL, "<base_footer>">>

\* specific_message: the provider's variant and the dedicated-channel footer
specific_message(processed_caption, link_type) ==
    create_channel_specific_caption(processed_caption, link_type) \o <<NL, "<specific_footer>">>

\* the locals of the handler, as they are when it is not running
ConfirmIdle ==
    /\ pc' = "idle"
    /\ cuser' = NoUser
    /\ idx' = 0
    /\ success_count' = 0
    /\ fail_count' = 0
    /\ skipped' = 0
    /\ base_i' = 0
    /\ types_left' = {}
    /\ targets' = <<>>
    /\ att' = <<>>

\* entry: the test `user_id not in user_posts`
ConfirmStart(u) ==
    /\ UNCHANGED <<fnVars, lockVars>>
    /\ overwrote' = FALSE
    /\ pc = "idle"
    /\ update' = Callback(u, "confirm_post")
    /\ IF u \notin DOMAIN user_posts
       THEN /\ reply' = Answer("not_found")
            /\ UNCHANGED <<user_posts, user_states, confirmVars>>
       ELSE /\ pc' = "post"
            /\ cuser' = u
            /\ idx' = 1
            /\ reply' = Answer("answered")
            /\ UNCHANGED <<user_posts, user_states, success_count, fail_count,
                           skipped, base_i, types_left, targets, att>>

\* a send to channel_id begins: await context.bot.send_photo(...), first attempt
BeginTarget(channel_id, message) ==
    /\ targets' = Append(targets, [post |-> idx, channel |-> channel_id, caption |-> message])
    /\ att' = <<>>
    /\ pc' = "send"

\* a variant of PostVerdict without the advertising test
PostVerdictUnfiltered(caption) ==
    LET links == CaptionLinks(remove_duplicate_links(caption))
    IN  IF links = <<>> THEN "no_links"
        ELSE IF identify_link_types(links) = {} THEN "no_provider"
        ELSE "send"

\* the tests the loop body makes on a post before it sends anything
PostVerdict(caption) ==
    LET links == CaptionLinks(remove_duplicate_links(caption))
    IN  IF detect_ad_content(caption) THEN "ad"
        ELSE IF links = <<>> THEN "no_links"
        ELSE IF identify_link_types(links) = {} THEN "no_provider"
        ELSE "send"

\* head of the loop `for post_data in user_posts[user_id]`, up to the first send
ConfirmPost ==
    /\ UNCHANGED <<fnVars, lockVars>>
    /\ overwrote' = FALSE
    /\ pc = "post"
    /\ UNCHANGED update
    /\ IF idx > Len(user_posts[cuser])
       THEN \* the loop is over: report, then del user_posts[user_id]
            /\ reply' = Answer(IF fail_count = 0 THEN "published_all"
                                                 ELSE "published_partial")
            /\ user_posts' = Del(user_posts, cuser)
            /\ pc' = "done"
            /\ UNCHANGED <<user_states, cuser, idx, success_count, fail_count, skipped,
                           base_i, types_left, targets, att>>
       ELSE LET caption == user_posts[cuser][idx].caption
                processed_caption == remove_duplicate_links(caption)
                verdict == PostVerdict(caption)
            IN  CASE verdict = "ad" ->
                     /\ fail_count' = fail_count + 1
                     /\ skipped' = skipped + 1
                     /\ idx' = idx + 1
                     /\ reply' = Answer("ad_detected")
                     /\ UNCHANGED <<user_posts, user_states, pc, cuser, success_count,
                                    base_i, types_left, targets, att>>
                  [] verdict \in {"no_links", "no_provider"} ->
                     \* the handler returns here, user_posts[user_id] is kept
                     /\ reply' = Answer(verdict)
                     /\ pc' = "done"
                     /\ UNCHANGED <<user_posts, user_states, cuser, idx, success_count,
                                    fail_count, skipped, base_i, types_left, targets, att>>
                  [] OTHER ->
                     /\ base_i' = 1
                     /\ types_left' = identify_link_types(CaptionLinks(processed_caption))
                     /\ BeginTarget(CHANNEL_IDS[1], base_message(processed_caption))
                     /\ UNCHANGED <<user_posts, user_states, reply, cuser, idx,
                                    success_count, fail_count, skipped>>

\* what send_photo can do: return, or raise RetryAfter, TimedOut or another exception
Outcomes == {"ok", "RetryAfter", "TimedOut", "Exception"}

\* a variant of AfterFirst that retries after every exception
AfterFirstRetryAll(outcome) == IF outcome # "ok" THEN "sleep" ELSE "next"

\* where the first attempt's try/except leads: on to the next target, or to
\* the sleep before the one retry
AfterFirst(outcome) == IF outcome \in {"RetryAfter", "TimedOut"} THEN "sleep" ELSE "next"

\* a variant of Counts in which the `except Exception` branch counts nothing
CountsUnlessLogged(outcome) ==
    IF outcome = "ok" THEN "success" ELSE IF outcome = "Exception" THEN "none" ELSE "fail"

\* the counter an attempt that ends the target adds to
Counts(outcome) == IF outcome = "ok" THEN "success" ELSE "fail"

\* what an attempt adds to `counter`: nothing when a retry follows it
Tally(then, outcome, counter) ==
    IF then # "sleep" /\ Counts(outcome) = counter THEN 1 ELSE 0

\* the first attempt of the current target returns or raises
Send(outcome) ==
    /\ UNCHANGED <<fnVars, lockVars>>
    /\ overwrote' = FALSE
    /\ pc = "send"
    /\ att' = Append(att, outcome)
    /\ pc' = AfterFirst(outcome)
    /\ success_count' = success_count + Tally(pc', outcome, "success")
    /\ fail_count' = fail_count + Tally(pc', outcome, "fail")
    /\ UNCHANGED <<user_posts, user_states, update, reply, cuser, idx, skipped, base_i,
                   types_left, targets>>

\* await asyncio.sleep(retry_after) / await asyncio.sleep(5)
Sleep ==
    /\ UNCHANGED <<fnVars, lockVars>>
    /\ overwrote' = FALSE
    /\ pc = "sleep"
    /\ att' = Append(att, IF att[Len(att)] = "RetryAfter" THEN "sleep(retry_after)"
                                                        ELSE "sleep(5)")
    /\ pc' = "resend"
    /\ UNCHANGED <<user_posts, user_states, update, reply, cuser, idx, success_count,
                   fail_count, skipped, base_i, types_left, targets>>

\* where the second attempt's try/except leads: the bare except counts a
\* failure and continues with the next target
AfterSecond(outcome) == "next"

\* the second attempt of the current target returns or raises
Resend(outcome) ==
    /\ UNCHANGED <<fnVars, lockVars>>
    /\ overwrote' = FALSE
    /\ pc = "resend"
    /\ att' = Append(att, outcome)
    /\ pc' = AfterSecond(outcome)
    /\ success_count' = success_count + Tally(pc', outcome, "success")
    /\ fail_count' = fail_count + Tally(pc', outcome, "fail")
    /\ UNCHANGED <<user_posts, user_states, update, reply, cuser, idx, skipped, base_i,
                   types_left, targets>>

\* the loops move on: next broadcast channel, then the link types in the
\* order the set yields them, then the next post
NextTarget ==
    /\ UNCHANGED <<fnVars, lockVars>>
    /\ overwrote' = FALSE
    /\ pc = "next"
    /\ LET processed_caption == remove_duplicate_links(user_posts[cuser][idx].caption)
       IN  IF base_i < Len(CHANNEL_IDS)
           THEN /\ base_i' = base_i + 1
                /\ BeginTarget(CHANNEL_IDS[base_i + 1], base_message(processed_caption))
                /\ UNCHANGED <<idx, types_left>>
           ELSE IF types_left # {}
           THEN \E link_type \in types_left :
                    /\ types_left' = types_left \ {link_type}
                    /\ BeginTarget(SPECIFIC_CHANNELS[link_type],
                                   specific_message(processed_caption, link_type))
                    /\ UNCHANGED <<idx, base_i>>
           ELSE /\ idx' = idx + 1
                /\ pc' = "post"
                /\ UNCHANGED <<base_i, types_left, targets, att>>
    /\ UNCHANGED <<user_posts, user_states, update, reply, cuser, success_count,
                   fail_count, skipped>>

\* the handler returns
ConfirmEnd ==
    /\ UNCHANGED <<fnVars, lockVars>>
    /\ overwrote' = FALSE
    /\ pc = "done"
    /\ ConfirmIdle
    /\ UNCHANGED <<user_posts, user_states, update, reply>>

\* ------------------------------------------------------------------------
\* The updates the submitters send
\* ------------------------------------------------------------------------

\* the most posts the bot holds at a time, all submitters together: the
\* posts in user_posts and the step sequences under way
MaxPosts == 2

RECURSIVE CountPosts(_, _)
CountPosts(posts, D) ==
    IF D = {} THEN 0
    ELSE LET u == CHOOSE x \in D : TRUE
         IN  Len(posts[u]) + CountPosts(posts, D \ {u})

Held == CountPosts(user_posts, DOMAIN user_posts) + Cardinality(DOMAIN user_states)

\* u may send: a message within u's step sequence, or one that can begin
\* another post within the bound
Room(u) == u \in DOMAIN user_states \/ Held < MaxPosts

QuarkUrl == <<"https://", "pan.quark.cn", "/s/", "x">>

BaiduUrl == <<"https://", "pan.baidu.com", "/s/", "y">>

\* a baidu share link whose query names the quark domain
MixedUrl == <<"https://", "pan.baidu.com", "/s/", "x", "?from=", "pan.quark.cn">>

OtherUrl == <<"https://", "example.com", "/", "x">>

\* a caption in the layout quick_post_start asks for
Layout(name, description, links, size, tags) ==
    <<"<name>", "<:>">> \o name \o <<NL>>
    \o <<"<desc>", "<:>">> \o description \o <<NL>>
    \o JoinLines([i \in 1..Len(links) |-> LinkLabel \o links[i]]) \o <<NL>>
    \o <<"<folder>", " ", "<size>", "<:>">> \o size \o <<NL>>
    \o <<"<label>", " ", "<tags>", "<:>">> \o tags

\* well-formed, links of two providers, one provider twice
CaptionGood == Layout(<<"a">>, <<"b">>, <<QuarkUrl, MixedUrl, BaiduUrl>>, <<"1G">>, <<"#t">>)

\* well-formed, advertising in the description
CaptionAd == Layout(<<"a">>, <<"<parttime>">>, <<QuarkUrl>>, <<"1G">>, <<"#t">>)

\* well-formed, a copyright keyword in the name
CaptionBanned == Layout(<<"<copyright>", "a">>, <<"b">>, <<QuarkUrl>>, <<"1G">>, <<"#t">>)

\* well-formed, a copyright keyword in the description
CaptionBannedDesc == Layout(<<"a">>, <<"b", "DMCA">>, <<QuarkUrl>>, <<"1G">>, <<"#t">>)

\* no name label, a link of no provider
CaptionLoose == <<"<desc>", "<:>", "b", NL>> \o LinkLabel \o OtherUrl

\* no name label, advertising in the description
CaptionLooseAd == <<"<desc>", "<:>", "<hiring>", NL>> \o LinkLabel \o QuarkUrl

PhotoMsg(image, caption) == [photo |-> image, caption |-> caption, text |-> NoneVal]

TextMsg(text) == [photo |-> NoPhoto, caption |-> NoneVal, text |-> text]

ImageOf(u) == IF u = "u1" THEN "photo1" ELSE "photo2"

\* the step a submitter is at, "none" without a step sequence
StepOf(u) == IF u \in DOMAIN user_states THEN user_states[u].step ELSE "none"

\* what a submitter in a step sequence types at a step
StepTexts(step) ==
    CASE step = "name" -> {<<"a">>}
      [] step = "description" -> {<<"b">>}
      [] step = "links" -> {<<"x">>}
      [] step = "size" -> {<<"1G">>}
      [] step = "tags" -> {<<"#t">>}
      [] OTHER -> {<<"a">>}

\* the submitters who use the step sequence
StepUsers == {"u2"}

\* the photos with caption the submitters send: u1 submits by single message,
\* u2 sends the cover that ends a step sequence, or a single message
PhotoMsgs(u) ==
    IF u = "u1"
    THEN {PhotoMsg(ImageOf(u), c) :
             c \in {CaptionGood, CaptionAd, CaptionBanned, CaptionLoose, CaptionLooseAd}}
    ELSE IF StepOf(u) \in {"none", "complete"}
    THEN {PhotoMsg(ImageOf(u), CaptionGood)}
    ELSE {}

\* the texts the submitters send
TextMsgs(u) == {TextMsg(t) : t \in StepTexts(StepOf(u))}

\* the bot: every handler, every outcome of every send
Next ==
    \/ \E u \in Users : \E msg \in PhotoMsgs(u) : Room(u) /\ handle_message(u, msg)
    \/ \E u \in Users : \E msg \in TextMsgs(u) : Room(u) /\ handle_step_post_message(u, msg)
    \/ \E u \in StepUsers : Room(u) /\ step_post_start(u)
    \/ \E u \in StepUsers : cancel_step_post(u)
    \/ \E u \in Users : clear_posts(u)
    \/ \E u \in Users : handle_edit_callback(u)
    \/ \E u \in Users : cancel_post(u)
    \/ \E u \in Users : ConfirmStart(u)
    \/ ConfirmPost
    \/ \E outcome \in Outcomes : Send(outcome)
    \/ Sleep
    \/ \E outcome \in Outcomes : Resend(outcome)
    \/ NextTarget
    \/ ConfirmEnd

Spec == Init /\ [][Next]_vars

\* ------------------------------------------------------------------------
\* The submission paths in detail: both submitters use both paths, names and
\* descriptions with and without copyright keywords, photos sent in the
\* middle of a step sequence; nothing is published
\* ------------------------------------------------------------------------

EntryStepTexts(step) ==
    CASE step = "name" -> {<<"a">>, <<"a", "<submit>">>}
      [] step = "description" -> {<<"b">>, <<"b", "DMCA">>}
      [] OTHER -> StepTexts(step)

EntryPhotoMsgs(u) ==
    IF StepOf(u) \in {"none", "links", "complete"}
    THEN {PhotoMsg(ImageOf(u), c) : c \in {CaptionGood, CaptionBanned, CaptionBannedDesc}}
    ELSE {}

EntryTextMsgs(u) == {TextMsg(t) : t \in EntryStepTexts(StepOf(u))}

NextEntry ==
    \/ \E u \in Users : \E msg \in EntryPhotoMsgs(u) : Room(u) /\ handle_message(u, msg)
    \/ \E u \in Users : \E msg \in EntryTextMsgs(u) : Room(u) /\ handle_step_post_message(u, msg)
    \/ \E u \in Users : unhandled_photo(u, PhotoMsg(ImageOf(u), NoneVal))
    \/ \E u \in Users : Room(u) /\ step_post_start(u)
    \/ \E u \in Users : cancel_step_post(u)
    \/ \E u \in Users : clear_posts(u)
    \/ \E u \in Users : handle_edit_callback(u)
    \/ \E u \in Users : cancel_post(u)

SpecEntry == Init /\ [][NextEntry]_vars

\* ------------------------------------------------------------------------
\* Single-message submissions in detail: captions that strict_mode_parse
\* reads in full, captions it does not and that are reconstructed, messages
\* without photo or without caption; no step sequence, nothing is published
\* ------------------------------------------------------------------------

\* no labels, a bare share link
CaptionBare == BaiduUrl

\* the description under the label auto_fix_message also reads, advertising in it
CaptionIntroAd == <<"<intro>", "<:>", "<hiring>", NL>> \o LinkLabel \o QuarkUrl

\* no name, a link to a shop
CaptionShop == <<"<desc>", "<:>", "b", NL>> \o LinkLabel \o <<"https://", "taobao.com", "/", "x">>

\* name, description and a link, no size and no tags
CaptionNoSize == <<"<name>", "<:>", "a", NL, "<desc>", "<:>", "b", NL>> \o LinkLabel \o QuarkUrl

\* a name and a blank size, no description
CaptionBlankSize == <<"<name>", "<:>", "a", NL, "<size>", "<:>", " ">>

\* the layout create_post_caption and auto_fix_message write
CaptionCanon ==
    <<"<name>", "<:>", "a", NL, NL, "<desc>", "<:>", "b", NL, NL>>
    \o LinkLabel \o QuarkUrl \o <<NL, NL>>
    \o <<"<folder>", " ", "<size>", "<:>", "1G", NL, "<label>", " ", "<tags>", "<:>", "#t">>

QuickCaptions ==
    {CaptionCanon, CaptionBanned, CaptionLoose, CaptionLooseAd, CaptionBare, CaptionIntroAd,
     CaptionShop, CaptionNoSize, CaptionBlankSize}

NextQuick ==
    \/ \E u \in Users : \E c \in QuickCaptions :
           Room(u) /\ handle_message(u, PhotoMsg(ImageOf(u), c))
    \/ \E u \in Users : handle_step_post_message(u, TextMsg(<<"a">>))
    \/ \E u \in Users : unhandled_photo(u, PhotoMsg(ImageOf(u), NoneVal))
    \/ \E u \in Users : clear_posts(u)

SpecQuick == Init /\ [][NextQuick]_vars

\* ------------------------------------------------------------------------
\* The caption engine on its own: a record is composed, the caption parsed
\* ------------------------------------------------------------------------

RecordNames == {<<"a">>, <<"a", " ", "b">>, <<"<channel>", "a">>}

RecordDescriptions == {<<"b">>, <<"b", NL, "x">>, <<"b", "<search>">>}

RecordLinks == {<<>>, <<QuarkUrl>>, <<OtherUrl>>, <<QuarkUrl, BaiduUrl>>, <<QuarkUrl, QuarkUrl>>,
                <<<<"x">>>>, <<<<" ">>, <<>>>>, StrLinks(BaiduUrl), StrLinks(<<" ", NL>>)}

RecordSizes == {<<>>, <<"1G">>}

RecordTags == {<<>>, <<"#t">>}

Records == [name : RecordNames, description : RecordDescriptions, links : RecordLinks,
            size : RecordSizes, tags : RecordTags]

InitRound ==
    /\ BotInit
    /\ record \in Records
    /\ sample = <<>>
    /\ result = NoResult

\* caption = post_manager.create_post_caption(record)
Compose ==
    /\ result.stage = "none"
    /\ LET res == create_post_caption(record)
       IN  result' = [result EXCEPT !.stage = "composed", !.kind = res.kind,
                                    !.caption = res.caption]
    /\ UNCHANGED <<user_posts, user_states, update, reply, overwrote, confirmVars, record,
                   sample, lockVars>>

\* post_manager.strict_mode_parse(caption)
Parse ==
    /\ result.stage = "composed"
    /\ result.kind = "ok"
    /\ result' = [result EXCEPT !.stage = "parsed", !.parsed = strict_mode_parse(result.caption)]
    /\ UNCHANGED <<user_posts, user_states, update, reply, overwrote, confirmVars, record,
                   sample, lockVars>>

NextRound == Compose \/ Parse

SpecRound == InitRound /\ [][NextRound]_vars

\* ------------------------------------------------------------------------
\* The caption engine on its own: a caption text is reconstructed
\* ------------------------------------------------------------------------

\* concatenation of a list of lists
RECURSIVE Flatten(_)
Flatten(lists) == IF lists = <<>> THEN <<>> ELSE Head(lists) \o Flatten(Tail(lists))

\* caption texts: for each field none, one or two lines, in the order of the
\* template; labels with either colon and under either name, a blank field, a
\* description of two lines, links with and without label, of a provider or
\* not, twice the same
Texts ==
    LET names == {<<>>, <<<<"<name>", "<:>", "a">>>>, <<<<"<name>", ":", "a">>>>,
                  <<<<"<title>", "<:>", "a">>>>, <<<<"<name>", "<:>", " ">>>>}
        descs == {<<>>, <<<<"<desc>", "<:>", "b">>>>, <<<<"<intro>", ":", "b">>>>,
                  <<<<"<desc>", "<:>", "b">>, <<"<hiring>">>>>,
                  <<<<"<desc>", ":", "<parttime>">>>>}
        links == {<<>>, <<LinkLabel \o QuarkUrl>>, <<BaiduUrl>>,
                  <<<<"<quark>", "<:>", " ">> \o QuarkUrl, LinkLabel \o QuarkUrl>>,
                  <<LinkLabel \o OtherUrl>>,
                  <<LinkLabel \o QuarkUrl, LinkLabel \o BaiduUrl, LinkLabel \o <<" ">> \o QuarkUrl>>,
                  <<LinkLabel \o MixedUrl, LinkLabel \o QuarkUrl>>,
                  <<LinkLabel \o <<"https://", "drive.uc.cn", "/s/", "u">>,
                    <<"https://", "pan.xunlei.com", "/s/", "v">>>>,
                  <<LinkLabel \o <<"https://", "jd.com", "/", "x">>, LinkLabel \o BaiduUrl>>}
        sizes == {<<>>, <<<<"<size>", "<:>", "1G">>>>, <<<<"<folder>", " ", "<size>", ":", "1G">>>>,
                  <<<<"<size>", "<:>", " ">>>>}
        tags  == {<<>>, <<<<"<label>", " ", "<tags>", "<:>", "#t">>>>}
    IN  {JoinLines(Flatten(<<n, d, l, z, t>>)) :
            n \in names, d \in descs, l \in links, z \in sizes, t \in tags}

InitText ==
    /\ BotInit
    /\ record = [post_template EXCEPT !.links = <<>>]
    /\ sample \in Texts
    /\ result = NoResult

\* fixed_caption = auto_fix_message(sample)
Fix ==
    /\ result.stage = "none"
    /\ result' = [result EXCEPT !.stage = "fixed", !.caption = auto_fix_message(sample)]
    /\ UNCHANGED <<user_posts, user_states, update, reply, overwrote, confirmVars, record,
                   sample, lockVars>>

\* post_manager.detect_ad_content(sample)
Detect ==
    /\ result.stage = "none"
    /\ result' = [result EXCEPT !.stage = "detected",
                                !.kind = IF detect_ad_content(sample) THEN "ad" ELSE "clean"]
    /\ UNCHANGED <<user_posts, user_states, update, reply, overwrote, confirmVars, record,
                   sample, lockVars>>

\* post_manager.identify_link_types and get_channels_for_each_link on the
\* lines of the sample taken as a list of links, and identify_link_types on
\* the list reversed and on the list repeated
Classify ==
    /\ result.stage = "none"
    /\ LET links == SplitLines(sample)
           backwards == [i \in 1..Len(links) |-> links[Len(links) + 1 - i]]
       IN  result' = [result EXCEPT
                         !.stage = "classified",
                         !.parsed = [types |-> identify_link_types(links),
                                     reversed |-> identify_link_types(backwards),
                                     repeated |-> identify_link_types(links \o links),
                                     mapping |-> get_channels_for_each_link(links)]]
    /\ UNCHANGED <<user_posts, user_states, update, reply, overwrote, confirmVars, record,
                   sample, lockVars>>

\* post_manager.remove_duplicate_links(sample)
Dedupe ==
    /\ result.stage = "none"
    /\ result' = [result EXCEPT !.stage = "deduped", !.caption = remove_duplicate_links(sample)]
    /\ UNCHANGED <<user_posts, user_states, update, reply, overwrote, confirmVars, record,
                   sample, lockVars>>

\* remove_duplicate_links applied to its own result, the first result kept
DedupeAgain ==
    /\ result.stage = "deduped"
    /\ result' = [result EXCEPT !.stage = "deduped twice",
                                !.parsed = result.caption,
                                !.caption = remove_duplicate_links(result.caption)]
    /\ UNCHANGED <<user_posts, user_states, update, reply, overwrote, confirmVars, record,
                   sample, lockVars>>

\* create_post_caption on a record whose links are the lines of the sample,
\* as handle_step_post_message splits them at step 'complete'
ComposeLinks ==
    /\ result.stage = "none"
    /\ LET res == create_post_caption([name |-> <<"a">>, description |-> <<"b">>,
                                        links |-> SplitLines(sample),
                                        size |-> <<"1G">>, tags |-> <<"#t">>])
       IN  result' = [result EXCEPT !.stage = "listed", !.kind = res.kind,
                                    !.caption = res.caption]
    /\ UNCHANGED <<user_posts, user_states, update, reply, overwrote, confirmVars, record,
                   sample, lockVars>>

NextText == Fix \/ Detect \/ Classify \/ Dedupe \/ DedupeAgain \/ ComposeLinks

SpecText == InitText /\ [][NextText]_vars

\* ------------------------------------------------------------------------
\* The instance lock (SingleInstanceLock, main) on a POSIX system, where the
\* lock is an fcntl.flock on the open file.  Every process started from the
\* script runs main(); each system call of acquire and release is a step of
\* its own, since other processes run between them.  The handlers of the
\* bot are left out here.
\* ------------------------------------------------------------------------

\* acquire(): self.lock_file = open(self.lock_file_path, 'w'), which opens
\* the file the name leads to and creates one when there is none
Open(p) ==
    /\ main_pc[p] = "off"
    /\ UNCHANGED <<user_posts, user_states, update, reply, overwrote, confirmVars, fnVars>>
    /\ LET inode == IF lock_path # 0 THEN lock_path
                    ELSE CHOOSE i \in 1..(Cardinality(Procs) + 1) :
                             \A q \in Procs : lock_file[q] # i
       IN  /\ lock_path' = inode
           /\ lock_file' = [lock_file EXCEPT ![p] = inode]
    /\ main_pc' = [main_pc EXCEPT ![p] = "opened"]
    /\ UNCHANGED <<flocked, is_locked>>

\* acquire(): flock(LOCK_EX | LOCK_NB).  It succeeds unless another open
\* file of the same inode holds the lock: then is_locked = True, acquire
\* returns True and main goes on to run_polling.  Otherwise BlockingIOError:
\* the file is closed, acquire returns False, main calls sys.exit(1), and
\* the release() of its finally clause does nothing, is_locked being False
Flock(p) ==
    /\ main_pc[p] = "opened"
    /\ UNCHANGED <<user_posts, user_states, update, reply, overwrote, confirmVars, fnVars>>
    /\ IF \E q \in flocked \ {p} : lock_file[q] = lock_file[p]
       THEN /\ lock_file' = [lock_file EXCEPT ![p] = 0]
            /\ main_pc' = [main_pc EXCEPT ![p] = "off"]
            /\ UNCHANGED <<flocked, is_locked>>
       ELSE /\ flocked' = flocked \cup {p}
            /\ is_locked' = is_locked \cup {p}
            /\ main_pc' = [main_pc EXCEPT ![p] = "polling"]
            /\ UNCHANGED lock_file
    /\ UNCHANGED lock_path

\* run_polling ends (a signal, an exception) and the finally clause calls
\* release(), is_locked being True: flock(LOCK_UN)
Unlock(p) ==
    /\ main_pc[p] = "polling"
    /\ UNCHANGED <<user_posts, user_states, update, reply, overwrote, confirmVars, fnVars>>
    /\ flocked' = flocked \ {p}
    /\ main_pc' = [main_pc EXCEPT ![p] = "unlocked"]
    /\ UNCHANGED <<lock_path, lock_file, is_locked>>

\* release(): self.lock_file.close(); self.lock_file = None;
\* self.is_locked = False
Close(p) ==
    /\ main_pc[p] = "unlocked"
    /\ UNCHANGED <<user_posts, user_states, update, reply, overwrote, confirmVars, fnVars>>
    /\ lock_file' = [lock_file EXCEPT ![p] = 0]
    /\ is_locked' = is_locked \ {p}
    /\ main_pc' = [main_pc EXCEPT ![p] = "closed"]
    /\ UNCHANGED <<lock_path, flocked>>

\* release(): if os.path.exists(path): os.remove(path); then the process ends
Remove(p) ==
    /\ main_pc[p] = "closed"
    /\ UNCHANGED <<user_posts, user_states, update, reply, overwrote, confirmVars, fnVars>>
    /\ lock_path' = 0
    /\ main_pc' = [main_pc EXCEPT ![p] = "off"]
    /\ UNCHANGED <<lock_file, flocked, is_locked>>

\* processes started and stopped at any time
NextLock ==
    \/ \E p \in Procs : Open(p)
    \/ \E p \in Procs : Flock(p)
    \/ \E p \in Procs : Unlock(p)
    \/ \E p \in Procs : Close(p)
    \/ \E p \in Procs : Remove(p)

SpecLock == Init /\ [][NextLock]_vars

\* ------------------------------------------------------------------------
\* Properties
\* ------------------------------------------------------------------------

Range(q) == {q[i] : i \in DOMAIN q}

NoRepeat(q) == \A i, j \in DOMAIN q : i # j => q[i] # q[j]

IsLinkLine(line) == StartsWith(line, LinkLabel)

\* the links and the provider tags the confirm workflow reads off a stored caption
PostLinks(caption) == CaptionLinks(remove_duplicate_links(caption))

PostTypes(caption) == identify_link_types(PostLinks(caption))

\* the two broadcast channels and the dedicated channel of each tag of T
ExpectedChannels(T) == Range(CHANNEL_IDS) \cup {SPECIFIC_CHANNELS[t] : t \in T}

\* handle_confirm_callback is running and the posts it goes through are in the store
Running == pc # "idle" /\ cuser \in DOMAIN user_posts

\* the j-th post of the running confirmation is advertising
AdPost(j) == detect_ad_content(user_posts[cuser][j].caption)

\* the sends begun for the j-th post of the running confirmation
TargetsOf(j) == SelectSeq(targets, LAMBDA t : t.post = j)

\* C1: in every reachable state, every caption held in user_posts is one for
\* which detect_ad_content returns false, whichever path stored it.
C1_StoredCaptionsAdFree ==
    \A u \in DOMAIN user_posts : \A i \in 1..Len(user_posts[u]) :
        ~detect_ad_content(user_posts[u][i].caption)

\* C2: during handle_confirm_callback no send is ever begun, to any channel,
\* for a stored post that detect_ad_content flags; the step that meets such a
\* post adds exactly one to fail_count, nothing to success_count, begins no
\* send, keeps the store, and goes on to the next stored post.
C2_NoAdPublished ==
    /\ [](Running => \A j \in 1..Len(user_posts[cuser]) : AdPost(j) => TargetsOf(j) = <<>>)
    /\ [][(pc = "post" /\ idx <= Len(user_posts[cuser]) /\ AdPost(idx))
            => /\ targets' = targets
               /\ fail_count' = fail_count + 1
               /\ success_count' = success_count
               /\ user_posts' = user_posts
               /\ pc' = "post"
               /\ idx' = idx + 1]_vars

\* an advertising post was skipped and the post after it is being sent
C2_AdSkippedNextSent ==
    /\ Running
    /\ pc = "next"
    /\ idx = 2
    /\ AdPost(1)
    /\ ~AdPost(2)
    /\ skipped = 1
    /\ fail_count >= 1
    /\ TargetsOf(1) = <<>>
    /\ Len(TargetsOf(2)) >= 1

\* C3: for a stored post none of whose links has a provider tag (or that has
\* no recognizable link), get_target_channels does not return the bare
\* broadcast list, and the confirm workflow begins no send for it and ends
\* with the failure report.
C3_NoProviderSignalled ==
    \A u \in DOMAIN user_posts : \A i \in 1..Len(user_posts[u]) :
        LET caption == user_posts[u][i].caption
        IN  PostTypes(caption) = {} =>
                /\ CHANNEL_IDS \notin get_target_channels(PostLinks(caption))
                /\ (Running /\ u = cuser) => TargetsOf(i) = <<>>
                /\ (Running /\ u = cuser /\ pc = "done" /\ idx = i)
                       => reply.kind \in {"no_links", "no_provider"}

\* C4: for every post the confirm workflow routes whose links classify to a
\* non-empty set T of provider tags: no channel is a target twice, every
\* target is a broadcast channel or the dedicated channel of a tag of T, once
\* the post is done its targets are exactly those channels, and every list
\* get_target_channels can return holds exactly those channels, each once.
C4_Routing ==
    Running =>
        \A j \in 1..Len(user_posts[cuser]) :
            LET links == PostLinks(user_posts[cuser][j].caption)
                T == identify_link_types(links)
                sent == TargetsOf(j)
                chans == [k \in 1..Len(sent) |-> sent[k].channel]
            IN  T # {} =>
                    /\ NoRepeat(chans)
                    /\ Range(chans) \subseteq ExpectedChannels(T)
                    /\ (j < idx /\ ~AdPost(j)) => Range(chans) = ExpectedChannels(T)
                    /\ \A l \in get_target_channels(links) :
                           NoRepeat(l) /\ Range(l) = ExpectedChannels(T)

\* a post with three links of two providers has been sent to its four channels
C4_TwoProvidersRouted ==
    /\ Running
    /\ pc = "post"
    /\ idx > 1
    /\ Len(PostLinks(user_posts[cuser][1].caption)) = 3
    /\ Cardinality(PostTypes(user_posts[cuser][1].caption)) = 2
    /\ Len(TargetsOf(1)) = 4

\* the lines p's variant has to keep: the non-link lines and the link lines
\* whose URL the classifier gives to p
KeptFor(lines, p) ==
    SelectSeq(lines, LAMBDA line : ~IsLinkLine(line) \/ LinkType(LinkUrl(line)) = p)

\* C5: for every stored caption, as the confirm workflow passes it on, and
\* every provider p, create_channel_specific_caption keeps exactly the link
\* lines whose URL the classifier gives to p and all non-link lines, in order;
\* and when p is one of the post's tags the variant has at least one link line.
C5_VariantKeepsOwnLinks ==
    \A u \in DOMAIN user_posts : \A i \in 1..Len(user_posts[u]) :
        LET processed_caption == remove_duplicate_links(user_posts[u][i].caption)
        IN  \A p \in Providers :
                LET variant == create_channel_specific_caption(processed_caption, p)
                IN  /\ variant = JoinLines(KeptFor(SplitLines(processed_caption), p))
                    /\ p \in PostTypes(user_posts[u][i].caption)
                           => \E k \in 1..Len(SplitLines(variant)) :
                                  IsLinkLine(SplitLines(variant)[k])

\* the message `msg` of submitter u makes the handler compose a caption
Composes(u, msg) ==
    /\ msg.photo # NoPhoto
    /\ msg.caption # NoneVal
    /\ IF u \in DOMAIN user_states
       THEN user_states[u].step = "complete"
       ELSE LET parsed_data == strict_mode_parse(msg.caption)
            IN  parsed_data.name # <<>> /\ parsed_data.description # <<>>

\* the record it composes from
ComposedRecord(u, msg) ==
    IF u \in DOMAIN user_states THEN StepRecord(user_states[u].data)
    ELSE strict_mode_parse(msg.caption)

\* the listed keywords that the name or the description of r contains
BannedIn(r) ==
    {k \in 1..Len(copyright_keywords) :
        \/ Contains(r.name, copyright_keywords[k])
        \/ Contains(r.description, copyright_keywords[k])}

\* r is a post record: name and description are text, links a list of texts
IsPostRecord(r) == r.name # NoneVal /\ r.description # NoneVal /\ r.links # NoneLinks

C7_RoundTrip ==
    result.stage = "parsed" =>
        /\ result.parsed.name = record.name
        /\ result.parsed.description = record.description
        /\ result.parsed.size = record.size
        /\ result.parsed.tags = (IF record.tags = <<>> THEN PromoTag
                                 ELSE record.tags \o <<" ">> \o PromoTag)
        /\ Range(result.parsed.links) = Range(record.links)

\* C8: when handle_confirm_callback returns, whatever the outcome, the
\* submitter has no entry left in user_posts; the same after cancel_post,
\* handle_edit_callback and clear_posts.
C8_StoreDiscarded ==
    /\ pc = "done" => cuser \notin DOMAIN user_posts
    /\ (pc = "idle" /\ update.kind \in {"cancel_post", "edit_post", "clear_posts"})
           => update.from \notin DOMAIN user_posts

\* C9: between targets and at the report, success_count + fail_count is the
\* number of sends begun plus the number of posts skipped for advertising
\* (while a target is in progress it is the one not yet counted); the report
\* says "all" exactly when fail_count is 0; and whatever the outcomes were,
\* every post gone through that was not advertising has had all its targets.
C9_Accounting ==
    /\ pc \in {"post", "next", "done"}
           => success_count + fail_count = Len(targets) + skipped
    /\ pc \in {"send", "sleep", "resend"}
           => success_count + fail_count = Len(targets) - 1 + skipped
    /\ (pc = "done" /\ reply.kind \in {"published_all", "published_partial"})
           => (reply.kind = "published_all" <=> fail_count = 0)
    /\ (Running /\ pc = "post")
           => \A j \in 1..(idx - 1) :
                  ~AdPost(j) =>
                      Len(TargetsOf(j)) = Len(CHANNEL_IDS)
                          + Cardinality(PostTypes(user_posts[cuser][j].caption))

\* the report after a confirmation in which a send failed and a send succeeded
C9_PartialReport ==
    /\ pc = "done"
    /\ reply.kind = "published_partial"
    /\ success_count > 0
    /\ fail_count > skipped
    /\ Len(targets) >= 3

\* the delay the handler sleeps after an exception of the first attempt
DelayAfter(outcome) == IF outcome = "RetryAfter" THEN "sleep(retry_after)" ELSE "sleep(5)"

\* C10: a target has at most two send attempts; the second comes only after
\* a first that raised RetryAfter or TimedOut and after the matching delay;
\* a first attempt that returns, or raises anything else, ends the target,
\* and so does the second attempt whatever it does, counted as a success if
\* it returned and as a failure if it raised; no (post, channel) pair is a
\* target twice.
C10_RetryOnce ==
    /\ [](/\ Len(att) <= 3
          /\ (pc = "send" => att = <<>>)
          /\ (pc = "sleep" => Len(att) = 1)
          /\ (pc = "resend" => Len(att) = 2)
          /\ (Len(att) >= 1 => att[1] \in Outcomes)
          /\ (Len(att) >= 2 => att[1] \in {"RetryAfter", "TimedOut"}
                                 /\ att[2] = DelayAfter(att[1]))
          /\ (Len(att) = 3 => att[3] \in Outcomes)
          /\ (Len(att) = 1 /\ att[1] \in {"ok", "Exception"} => pc \notin {"sleep", "resend"})
          /\ \A i, j \in 1..Len(targets) :
                 (i # j /\ targets[i].post = targets[j].post)
                     => targets[i].channel # targets[j].channel)
    /\ [][/\ (pc = "send" /\ pc' # "sleep")
                => /\ pc' = "next"
                   /\ targets' = targets
                   /\ IF att'[1] = "ok"
                      THEN success_count' = success_count + 1 /\ fail_count' = fail_count
                      ELSE fail_count' = fail_count + 1 /\ success_count' = success_count
          /\ pc = "resend"
                => /\ pc' = "next"
                   /\ targets' = targets
                   /\ IF att'[3] = "ok"
                      THEN success_count' = success_count + 1 /\ fail_count' = fail_count
                      ELSE fail_count' = fail_count + 1 /\ success_count' = success_count]_vars

\* a target whose first attempt raised RetryAfter and whose second raised TimedOut
C10_RetriedAndFailed ==
    /\ pc = "next"
    /\ Len(att) = 3
    /\ att[1] = "RetryAfter"
    /\ att[2] = "sleep(retry_after)"
    /\ att[3] = "TimedOut"

\* user_posts.get(u, [])
PostsOf(posts, u) == IF u \in DOMAIN posts THEN posts[u] ELSE <<>>

\* the message carries image and caption, and strict_mode_parse finds no
\* name or no description in the caption
Fallback(msg) ==
    /\ msg.photo # NoPhoto
    /\ msg.caption # NoneVal
    /\ LET parsed_data == strict_mode_parse(msg.caption)
       IN  parsed_data.name = <<>> \/ parsed_data.description = <<>>

\* C11: whenever handle_message takes the fallback branch for a submitter
\* without step sequence: (a) an original caption that matches the structural
\* pattern and is not advertising is stored as it is; (b) one that does not
\* match is either rejected or stored as the reconstructed text, which then
\* differs from the original, is not advertising and matches the pattern;
\* (c) a rejection leaves user_posts unchanged and shows no preview; and an
\* accepted submission appends exactly one post and shows the preview.
C11_FallbackBranch ==
    [][(/\ update'.kind = "photo"
        /\ update'.from \notin DOMAIN user_states
        /\ Fallback(update'.msg))
        => LET u == update'.from
               c == update'.msg.caption
               fixed == auto_fix_message(c)
               accepted(x) == /\ user_posts' = AppendPost(user_posts, u, update'.msg.photo, x)
                              /\ Len(PostsOf(user_posts', u)) = Len(PostsOf(user_posts, u)) + 1
                              /\ reply'.kind = "preview"
               rejected == /\ user_posts' = user_posts
                           /\ reply'.kind \in {"ad_rejected", "format_error"}
           IN  /\ (StructuralMatch(c) /\ ~detect_ad_content(c)) => accepted(c)
               /\ ~StructuralMatch(c)
                      => \/ rejected
                         \/ /\ accepted(fixed)
                            /\ fixed # c
                            /\ ~detect_ad_content(fixed)
                            /\ StructuralMatch(fixed)
               /\ detect_ad_content(c) => rejected
               /\ rejected \/ reply'.kind = "preview"
               /\ user_states' = user_states]_vars

\* a submission without labels was accepted as its reconstructed text
C11_ReconstructedStored ==
    /\ update.kind = "photo"
    /\ Fallback(update.msg)
    /\ reply.kind = "preview"
    /\ LET posts == PostsOf(user_posts, update.from)
       IN  /\ posts # <<>>
           /\ posts[Len(posts)].caption = auto_fix_message(update.msg.caption)
           /\ posts[Len(posts)].caption # update.msg.caption

\* the lines of a caption that are link lines
LinkLinesOf(caption) == SelectSeq(SplitLines(caption), IsLinkLine)

\* C12: for every caption text, the text auto_fix_message returns begins with
\* the name line, ends with the size line and the tag line, has at least one
\* link line, shows the sentinel of every field whose label the input lacks
\* and the placeholder link when the input has no URL, and matches the
\* structural pattern of handle_message (so the format error after
\* reconstruction cannot occur).
C12_FixedMatchesPattern ==
    result.stage = "fixed" =>
        LET fixed == result.caption
            lines == SplitLines(fixed)
            n     == Len(lines)
            has(labels) == \E i \in 1..Len(sample) : sample[i] \in labels
        IN  /\ StructuralMatch(fixed)
            /\ n >= 7
            /\ StartsWith(lines[1], <<"<name>", "<:>">>)
            /\ lines[2] = <<>>
            /\ StartsWith(lines[3], <<"<desc>", "<:>">>)
            /\ LinkLinesOf(fixed) # <<>>
            /\ IsLinkLine(lines[n - 3])
            /\ lines[n - 2] = <<>>
            /\ StartsWith(lines[n - 1], <<"<folder>", " ", "<size>", "<:>">>)
            /\ StartsWith(lines[n], <<"<label>", " ", "<tags>", "<:>">>)
            /\ ~has({"<name>"}) => lines[1] = <<"<name>", "<:>">> \o Absent
            /\ ~has({"<desc>", "<intro>"}) => lines[3] = <<"<desc>", "<:>">> \o Absent
            /\ ~has({"https://", "http://"})
                   => LinkLinesOf(fixed) = <<LinkLabel \o PlaceholderLink>>
            /\ ~has({"<size>"}) => lines[n - 1] = <<"<folder>", " ", "<size>", "<:>", "NG">>
            /\ ~has({"<tags>"}) => lines[n] = <<"<label>", " ", "<tags>", "<:>", "#<netdisk>">>

\* a text with no label and no link was rebuilt from the sentinels alone
C12_AllSentinels ==
    /\ result.stage = "fixed"
    /\ sample = <<>>
    /\ result.caption =
           <<"<name>", "<:>">> \o Absent \o <<NL, NL, "<desc>", "<:>">> \o Absent \o <<NL, NL>>
           \o LinkLabel \o PlaceholderLink
           \o <<NL, NL, "<folder>", " ", "<size>", "<:>", "NG", NL>>
           \o <<"<label>", " ", "<tags>", "<:>", "#<netdisk>">>

\* the update is a message without photo or without caption
Incomplete(upd) ==
    /\ upd.kind \in {"photo", "text"}
    /\ upd.msg.photo = NoPhoto \/ upd.msg.caption = NoneVal

\* C13: whenever a submitter without step sequence sends a message that lacks
\* a photo or lacks a caption, the answer is the format-error message, and
\* user_posts and user_states are left as they were (so nothing is stored and
\* no preview is shown).
C13_IncompleteRejected ==
    [][(Incomplete(update') /\ update'.from \notin DOMAIN user_states)
        => /\ reply'.kind = "format_error"
           /\ user_posts' = user_posts
           /\ user_states' = user_states]_vars

\* some symbol of s is an advertising keyword
HasAdKeyword(s) == \E i \in 1..Len(s) : s[i] \in ad_keywords

\* some line of the caption is a link line whose URL does not begin with a
\* provider domain and names a commerce or social platform
HasShopLink(caption) ==
    \E k \in 1..Len(LinkLinesOf(caption)) :
        LET url == Strip(Drop(LinkLinesOf(caption)[k], 2))
        IN  /\ url # <<>>
            /\ IsScheme(url[1])
            /\ ~ProviderPrefix(url)
            /\ \E i \in 1..Len(url) : url[i] \in suspicious_patterns

\* C14: detect_ad_content is true of a caption exactly when the description
\* that strict_mode_parse extracts from it (over several lines, under either
\* colon) contains an advertising keyword, or a link line of it has a URL
\* outside the provider domains that names a commerce or social platform.
C14_AdExactly ==
    result.stage = "detected" =>
        (result.kind = "ad"
            <=> \/ HasAdKeyword(strict_mode_parse(sample).description)
                \/ HasShopLink(sample))

\* the fixed order in which the domain markers are tried
MarkerOrder == <<"quark", "baidu", "uc", "xunlei">>

\* the tag of a link: the first provider in the fixed order whose domain
\* marker occurs in the link's URL, "unknown" when none does
TagOf(link) ==
    LET url == IF StartsWith(link, LinkLabel) THEN Strip(Drop(link, 2)) ELSE Strip(link)
        hits == {k \in 1..Len(MarkerOrder) :
                    \E i \in 1..Len(url) : url[i] = Marker[MarkerOrder[k]]}
    IN  IF hits = {} THEN "unknown" ELSE MarkerOrder[MinOf(hits)]

\* C15: for every list of links, with or without the link label:
\* identify_link_types returns exactly the tags other than unknown of its
\* elements, each tag being the first marker in the order quark, baidu, uc,
\* xunlei that occurs in the URL; the result is the same for the list
\* reversed and for the list repeated; and get_channels_for_each_link gives
\* each link the broadcast channels followed by the dedicated channel of that
\* same tag, and nothing more for unknown.
C15_Classification ==
    result.stage = "classified" =>
        LET links == SplitLines(sample)
            tags  == {TagOf(links[i]) : i \in 1..Len(links)} \ {"unknown"}
            r     == result.parsed
        IN  /\ r.types = tags
            /\ r.reversed = tags
            /\ r.repeated = tags
            /\ Len(r.mapping) = Len(links)
            /\ \A i \in 1..Len(links) :
                   r.mapping[i].channels =
                       (IF TagOf(links[i]) = "unknown" THEN CHANNEL_IDS
                        ELSE Append(CHANNEL_IDS, SPECIFIC_CHANNELS[TagOf(links[i])]))

\* a link of one provider whose URL also names another provider's domain was
\* classified, next to a link of the other provider
C15_TwoMarkers ==
    /\ result.stage = "classified"
    /\ \E i \in 1..Len(SplitLines(sample)) : SplitLines(sample)[i] = LinkLabel \o MixedUrl
    /\ result.parsed.types = {"quark"}
    /\ Len(result.parsed.mapping) >= 2

\* the URL of a link line: what follows the label, without surrounding blanks
UrlOf(line) == Strip(Drop(line, Len(LinkLabel)))

\* the lines of `lines` at the positions in K, in order
RECURSIVE LinesAt(_, _, _)
LinesAt(lines, K, i) ==
    IF i > Len(lines) THEN <<>>
    ELSE (IF i \in K THEN <<lines[i]>> ELSE <<>>) \o LinesAt(lines, K, i + 1)

\* no two link lines of the caption have the same URL
OneLinePerUrl(caption) ==
    LET L == LinkLinesOf(caption)
    IN  \A i, j \in 1..Len(L) : i # j => UrlOf(L[i]) # UrlOf(L[j])

\* C16: for every caption, remove_duplicate_links returns the lines of the
\* caption, in order, without the link lines whose URL an earlier link line
\* already has: first occurrences and all other lines are kept; applied to
\* its own result it changes nothing; and every caption create_post_caption
\* returns has at most one link line per URL.
C16_Deduplication ==
    /\ result.stage = "deduped" =>
           LET lines == SplitLines(sample)
               first == {i \in 1..Len(lines) :
                            IsLinkLine(lines[i]) =>
                                ~\E j \in 1..(i - 1) : /\ IsLinkLine(lines[j])
                                                        /\ UrlOf(lines[j]) = UrlOf(lines[i])}
           IN  /\ SplitLines(result.caption) = LinesAt(lines, first, 1)
               /\ OneLinePerUrl(result.caption)
    /\ result.stage = "deduped twice" => result.caption = result.parsed
    /\ (result.stage = "listed" /\ result.kind = "ok") => OneLinePerUrl(result.caption)

\* a caption with the same URL on two link lines that are not adjacent and
\* differ in a blank has lost the second of them
C16_LaterLineRemoved ==
    /\ result.stage = "deduped"
    /\ ~OneLinePerUrl(sample)
    /\ Len(LinkLinesOf(sample)) = 3
    /\ LinkLinesOf(result.caption) = <<LinkLabel \o QuarkUrl, LinkLabel \o BaiduUrl>>

\* the strings of a links value: the elements of the list, or the one string
StringsOf(links) == IF IsList(links) THEN links ELSE <<links[2]>>

\* C17: for every record for which create_post_caption succeeds, whether
\* its links are an empty list, a list of blank strings, a list of other
\* strings or a single string, the caption has at least one link line, and
\* when every string of the links is blank it has the placeholder link line
\* and no other.
C17_NeverLinkless ==
    (result.stage \in {"composed", "parsed"} /\ result.kind = "ok") =>
        /\ LinkLinesOf(result.caption) # <<>>
        /\ (\A i \in 1..Len(StringsOf(record.links)) : Strip(StringsOf(record.links)[i]) = <<>>)
               => LinkLinesOf(result.caption) = <<LinkLabel \o PlaceholderLink>>

\* a record whose links are a list of two blank strings was composed
C17_BlankLinksComposed ==
    /\ result.stage = "composed"
    /\ result.kind = "ok"
    /\ record.links = <<<<" ">>, <<>>>>
    /\ LinkLinesOf(result.caption) = <<LinkLabel \o PlaceholderLink>>

\* the position of a step in the order of the sequence
StepIndex(step) == CHOOSE k \in 1..Len(Steps) : Steps[k] = step

\* the fields the sequence has not asked for yet when it is at `step`
FieldsAhead(step) == {Steps[k] : k \in StepIndex(step)..(Len(Steps) - 1)}

\* C18: user_states holds one step record per submitter, and in it every
\* field the sequence has not asked for yet is empty; starting a sequence,
\* also while one is active for the same submitter, leaves that submitter
\* with a record at step 'name' whose fields are all empty and changes
\* nothing else; and a text sent within a sequence sets the field of the
\* current step and no other. So the post composed at 'complete' is made of
\* fields entered since the last start.
C18_OneFreshSequence ==
    /\ [](\A u \in DOMAIN user_states :
              /\ u \in Users
              /\ user_states[u].step \in Range(Steps)
              /\ \A f \in FieldsAhead(user_states[u].step) : user_states[u].data[f] = <<>>)
    /\ [][update'.kind = "step_post"
            => LET u == update'.from
               IN  /\ u \in DOMAIN user_states'
                   /\ user_states'[u].step = "name"
                   /\ \A f \in FieldsAhead("name") : user_states'[u].data[f] = <<>>
                   /\ \A v \in Users \ {u} :
                          /\ v \in DOMAIN user_states' <=> v \in DOMAIN user_states
                          /\ v \in DOMAIN user_states => user_states'[v] = user_states[v]
                   /\ user_posts' = user_posts]_vars
    /\ [][(/\ update'.kind \in {"text", "photo"}
           /\ update'.from \in DOMAIN user_states
           /\ user_states[update'.from].step # "complete"
           /\ update'.msg.photo = NoPhoto \/ update'.msg.caption # NoneVal)
            => LET u == update'.from
                   step == user_states[u].step
               IN  /\ u \in DOMAIN user_states'
                   /\ user_states'[u].step = NextStep(step)
                   /\ user_states'[u].data[step] = update'.msg.text
                   /\ \A f \in Range(Steps) \ {step, "complete"} :
                          user_states'[u].data[f] = user_states[u].data[f]]_vars

\* a submitter with a step sequence under way has started again
C18_Restarted ==
    /\ overwrote
    /\ update.kind = "step_post"
    /\ user_states[update.from] = [step |-> "name", data |-> post_template]

\* the list begins with the broadcast channels, primary then secondary, as
\* far as it goes, and holds no broadcast channel after them
BroadcastFirst(chans) ==
    /\ \A k \in 1..Min(Len(chans), Len(CHANNEL_IDS)) : chans[k] = CHANNEL_IDS[k]
    /\ \A k \in (Len(CHANNEL_IDS) + 1)..Len(chans) : chans[k] \notin Range(CHANNEL_IDS)

\* C19: for each post the confirm workflow goes through, the sends are begun
\* to the primary broadcast channel, then the secondary, then the dedicated
\* channels; and every list get_target_channels returns for the post's links
\* has the broadcast channels first, in that order, then the dedicated ones.
C19_BroadcastFirst ==
    Running =>
        \A j \in 1..Len(user_posts[cuser]) :
            LET sent == TargetsOf(j)
            IN  /\ BroadcastFirst([k \in 1..Len(sent) |-> sent[k].channel])
                /\ \A l \in get_target_channels(PostLinks(user_posts[cuser][j].caption)) :
                       BroadcastFirst(l)

SizeLabel == <<"<folder>", " ", "<size>", "<:>">>

\* the values of the size lines of a caption
SizesOf(caption) ==
    LET lines == SelectSeq(SplitLines(caption), LAMBDA line : StartsWith(line, SizeLabel))
    IN  [k \in 1..Len(lines) |-> Strip(Drop(lines[k], Len(SizeLabel)))]

\* C20: every caption in user_posts, whichever path stored it, has a size
\* line, and the size it shows is not empty (a sentinel stands for a size the
\* submission did not carry).
C20_SizeNeverEmpty ==
    \A u \in DOMAIN user_posts : \A i \in 1..Len(user_posts[u]) :
        /\ SizesOf(user_posts[u][i].caption) # <<>>
        /\ \A k \in 1..Len(SizesOf(user_posts[u][i].caption)) :
               SizesOf(user_posts[u][i].caption)[k] # <<>>

\* the update handled by this step is a message the step logic received
\* from submitter u
Received(u) ==
    /\ update'.from = u
    /\ update'.kind \in {"text", "photo"}
    /\ update'.msg.photo = NoPhoto \/ update'.msg.caption # NoneVal

\* what one step of the bot does to the step record of submitter u, who has
\* one: a received message before 'complete' moves it one step on and sets
\* the field of the step it was at; the record goes only by cancel_step_post,
\* which leaves user_posts alone, or by a photo received at 'complete';
\* nothing else changes it, except, when `restarts`, step_post_start
StepProgress(u, restarts) ==
    LET old == user_states[u]
    IN  /\ (Received(u) /\ old.step # "complete")
            => /\ u \in DOMAIN user_states'
               /\ user_states'[u].step = NextStep(old.step)
               /\ \A f \in Range(Steps) \ {old.step, "complete"} :
                      user_states'[u].data[f] = old.data[f]
        /\ u \in DOMAIN user_states'
            => \/ user_states'[u] = old
               \/ /\ Received(u)
                  /\ old.step # "complete"
                  /\ StepIndex(user_states'[u].step) = StepIndex(old.step) + 1
               \/ /\ restarts
                  /\ update' = Callback(u, "step_post")
                  /\ user_states'[u] = [step |-> "name", data |-> post_template]
        /\ u \notin DOMAIN user_states'
            => \/ /\ update' = Callback(u, "cancel_step_post")
                  /\ user_posts' = user_posts
               \/ /\ Received(u)
                  /\ old.step = "complete"
                  /\ update'.msg.photo # NoPhoto

\* C21 as stated: the step of a submitter's record only moves along name,
\* description, links, size, tags, complete, one step per received message,
\* never backwards and never skipping; the message received at step s writes
\* field s only; the record is removed only by finalization at 'complete' or
\* by cancel_step_post, which leaves the stored posts unchanged.
C21_StepProgression ==
    [][\A u \in DOMAIN user_states : StepProgress(u, FALSE)]_vars

\* C21 amended: as stated, except that step_post_start, pressed by a
\* submitter whose sequence is under way, replaces the record by a new one at
\* step 'name' with every field empty.
C21_StepProgressionOrRestart ==
    [][\A u \in DOMAIN user_states : StepProgress(u, TRUE)]_vars

\* a submitter has gone through the five steps, a text at each, and is
\* asked for the cover
C21_ReachedComplete ==
    /\ update.kind = "text"
    /\ update.from \in DOMAIN user_states
    /\ user_states[update.from].step = "complete"
    /\ \A f \in FieldsAhead("name") : user_states[update.from].data[f] \notin {<<>>, NoneVal}

\* C22: at step 'complete' a message without a photo leaves the step record
\* and user_posts unchanged; a message with a photo ends the sequence in
\* exactly one of two ways: one post, made of that photo and the composed
\* caption, is appended to the submitter's list and the record is removed;
\* or a banned keyword is reported, nothing is appended and the record is
\* removed. No record survives a finalization attempt that carried a photo.
C22_Finalization ==
    [][\A u \in DOMAIN user_states :
           (Received(u) /\ user_states[u].step = "complete")
            => IF update'.msg.photo = NoPhoto
               THEN user_states' = user_states /\ user_posts' = user_posts
               ELSE /\ user_states' = Del(user_states, u)
                    /\ \/ /\ reply'.kind = "preview"
                          /\ \E caption \in {create_post_caption(StepRecord(user_states[u].data)).caption} :
                                 user_posts' = AppendPost(user_posts, u, update'.msg.photo, caption)
                       \/ /\ reply'.kind = "banned"
                          /\ user_posts' = user_posts]_vars

\* C23: a submitter whose sequence is at 'complete' and who sends a photo,
\* with or without a caption, has the photo taken by the step logic, and the
\* sequence leaves 'complete'. Stated for records whose fields were all
\* entered as text, for which composition raises nothing but ValueError.
C23_CoverFinalizes ==
    [][\A u \in DOMAIN user_states :
           (/\ user_states[u].step = "complete"
            /\ \A f \in FieldsAhead("name") : user_states[u].data[f] # NoneVal
            /\ update'.from = u
            /\ update'.kind = "photo"
            /\ update'.msg.photo # NoPhoto)
            => /\ reply'.kind \in {"preview", "banned"}
               /\ u \notin DOMAIN user_states']_vars

\* the processes that have acquired the instance lock and run the polling loop
Polling == {p \in Procs : main_pc[p] = "polling"}

\* C24: at any time at most one process has acquired the instance lock and
\* runs the polling loop, whatever the interleaving of the steps of acquire
\* and release of processes starting and stopping.
C24_SingleInstance == Cardinality(Polling) <= 1

\* the submitter on whose behalf the step from this state to the next runs:
\* the sender of the update it handles, or the submitter whose confirmation
\* goes on
Actor == IF pc = "idle" THEN update'.from ELSE cuser

\* the entry of submitter v in a store, <<>> when there is none
EntryOf(store, v) == IF v \in DOMAIN store THEN <<store[v]>> ELSE <<>>

\* every step of a handler leaves the entries of the other submitters alone
Isolated ==
    \A v \in Users \ {Actor} :
        /\ EntryOf(user_posts', v) = EntryOf(user_posts, v)
        /\ EntryOf(user_states', v) = EntryOf(user_states, v)

\* the sends of the running confirmation are of posts of its submitter, in
\* the order of the list, each with a caption made of the stored one; and
\* the posts stored for a submitter carry the photos that submitter sent
OwnPostsInOrder ==
    /\ \A u \in DOMAIN user_posts : \A i \in 1..Len(user_posts[u]) :
           user_posts[u][i].image = ImageOf(u)
    /\ Running =>
           /\ \A k \in 1..Len(targets) :
                  /\ targets[k].post \in 1..Len(user_posts[cuser])
                  /\ LET processed == remove_duplicate_links(user_posts[cuser][targets[k].post].caption)
                     IN  targets[k].caption \in
                             {base_message(processed)}
                             \cup {specific_message(processed, t) : t \in Providers}
           /\ \A k \in 1..(Len(targets) - 1) : targets[k].post <= targets[k + 1].post

\* C25: every step of a handler run for submitter u leaves user_posts[v] and
\* user_states[v] as they were for every other submitter v; a confirmation
\* by u sends only posts that u submitted, in the order they were stored,
\* and when it ends it has sent all of them: every post of u that is not
\* advertising and has a link of a recognized provider.
C25_Isolation ==
    /\ [][Isolated]_vars
    /\ []OwnPostsInOrder
    /\ [][(pc = "post" /\ pc' = "done")
            => \A j \in 1..Len(user_posts[cuser]) :
                   PostVerdict(user_posts[cuser][j].caption) = "send" => TargetsOf(j) # <<>>]_vars

\* the two message handlers
MessageHandlers == {"handle_message", "handle_step_post_message"}

\* C26: whatever user_states holds and whichever of the two handlers an
\* update of a submitter enters, the update is handed over at most once,
\* the handler it ends in does not hand it over, and that handler is the
\* step logic if the submitter has a step sequence and the single-message
\* logic if not; so every message is handled by exactly one body and the
\* handling ends (no message is answered by the RecursionError of calls
\* that never end).
C26_DispatchTerminates ==
    /\ \A u \in Users : \A handler \in MessageHandlers :
           LET route == Route(handler, u, 0)
               last == route[Len(route)]
           IN  /\ Len(route) <= 2
               /\ ~Delegates(last, u)
               /\ last = "handle_step_post_message" <=> u \in DOMAIN user_states
               /\ Len(route) = 2 <=> last # handler
    /\ reply.kind # "RecursionError"

\* a photo with caption sent in the middle of a step sequence entered
\* handle_message and was handed over once, to the step logic, which stored
\* its text (None) as the links; and a submitter without step record is
\* there, whose texts go from handle_step_post_message to handle_message
C26_HandedOverOnce ==
    /\ update.kind = "photo"
    /\ update.msg.caption # NoneVal
    /\ update.from \in DOMAIN user_states
    /\ user_states[update.from].step = "size"
    /\ user_states[update.from].data.links = NoneVal
    /\ reply.kind = "prompt"
    /\ Route("handle_message", update.from, 0) = <<"handle_message", "handle_step_post_message">>
    /\ \E v \in Users \ DOMAIN user_states :
           Route("handle_step_post_message", v, 0) = <<"handle_step_post_message", "handle_message">>

====
